---- MODULE Spec2Model ----
(***************************************************************************)
(* Traffic-log pipeline of ecom-traffic-demo.                              *)
(*                                                                         *)
(* Write path : the login / checkout request handlers call logTraffic,     *)
(*              which (in production) writes a record to the key/value     *)
(*              store, adds its id to the sorted set 'traffic:logs' and    *)
(*              trims the sorted set; (in development) appends the record  *)
(*              to a JSON file.                                            *)
(* Read path  : getTrafficLogs, the /api/traffic and                       *)
(*              /api/traffic/incremental routes, /api/dashboard-data.      *)
(*                                                                         *)
(* The model follows the last version of each file under src/src (the      *)
(* sequential-command logTraffic, the object-variant getTrafficLogs, the   *)
(* 'latest' incremental route).  Sizes that are 1000 / 100 in the source   *)
(* are scaled down; every scaled value is named below.                     *)
(***************************************************************************)
EXTENDS Integers, Sequences, FiniteSets, TLC

(* ------------------------------ bounds -------------------------------- *)
\* last millisecond the model's clock reaches
MaxTime == 3
\* number of logTraffic calls in one behaviour
MaxCalls == 3
\* number of polls of the incremental endpoint in one behaviour
MaxPolls == 3
\* number of logTraffic calls in a behaviour with detail queries
MaxQueryCalls == 2
\* number of logTraffic calls in a behaviour that varies the request headers
MaxIpCalls == 1
\* last second of the clock of the counter store
MaxSeconds == 8
\* number of tracked events counted in one behaviour
MaxTracked == 3
\* number of fetches the two-stream dashboard sends in one behaviour
MaxFetches == 4
\* number of requests logged while the two-stream dashboard is watched
MaxWatchedCalls == 1
\* last millisecond at which a snapshot route is called
MaxQueryTime == 5

(* ------------------------ program constants --------------------------- *)
\* traffic-logger.ts:286  const MAX_LOGS = 1000  (scaled)
MAX_LOGS == 2
\* incremental/route.ts:135  const limit = 100  (scaled)
INCREMENTAL_LIMIT == 1
\* spec 4.2 / part_006:90  limit = 100 default of a detail query (scaled)
DEFAULT_LIMIT == 1

Writers == {"w1", "w2"}
\* the handler of a behaviour in which requests are served one at a time
SeqWriters == {"w1"}
Endpoints == {"/api/auth/login", "/api/checkout"}
\* the random suffix of a log id: Math.random().toString(36).substring(2, 10)
Suffixes == {0, 1}
None == "none"

\* An optional value (undefined / null in the source) is the empty set or a
\* singleton.
Nothing == {}
Some(v) == {v}
The(o) == CHOOSE v \in o : TRUE

VARIABLES
    now,          \* the wall clock, in milliseconds (Date.now())
    isProduction, \* process.env.NODE_ENV === 'production'
    records,      \* key/value store: log id -> stored TrafficLog
    index,        \* sorted set 'traffic:logs': set of [id, score]
    file,         \* src/data/traffic.json: sequence of TrafficLog (dev mode)
    pc,           \* each handler's position
    req,          \* the request each handler is serving
    cur,          \* the entry the running logTraffic call is writing
    calls,        \* status codes passed to logTraffic for the current request
    failed,       \* the store step of the running logTraffic call that threw
    appended,     \* history: ids in the order zadd put them in the index
    ncalls,       \* history: logTraffic calls made so far
    cursor,       \* polling client: the latestTimestamp of the last response
    delivered,    \* history: ids of all logs the polling client received
    npolls,       \* history: polls made so far
    lastResponse, \* polling client: the last response and the request it answers
    view,         \* the incremental dashboard component (logs view)
    dash,         \* the dashboard component with a chart and a logs stream
    lastQuery,    \* the last query (detail or dashboard): its options and result
    nowSeconds,   \* the wall clock in seconds (Math.floor(Date.now() / 1000))
    counters,     \* counter store: <<endpoint, second>> -> count
    tracked       \* history: tracked-endpoint events, each with its second

vars == <<now, isProduction, records, index, file, pc, req, cur, calls, failed,
          appended, ncalls, cursor, delivered, npolls, lastResponse, view, dash,
          lastQuery,
          nowSeconds, counters, tracked>>

storeVars == <<records, index, file>>
writerVars == <<pc, req, cur, calls, failed, appended, ncalls>>
clientVars == <<cursor, delivered, npolls, lastResponse, view, dash>>
counterVars == <<nowSeconds, counters, tracked>>

(* ----------------------------- helpers -------------------------------- *)
Range(s) == {s[i] : i \in 1..Len(s)}

Min(a, b) == IF a < b THEN a ELSE b

\* Array.prototype.slice(0, n): the first n elements
SliceFirst(s, n) == IF Len(s) > n THEN SubSeq(s, 1, n) ELSE s

\* Array.prototype.slice(-n) for n > 0: the last n elements
SliceLast(s, n) == IF Len(s) > n THEN SubSeq(s, Len(s) - n + 1, Len(s)) ELSE s

(* --------------------------- sorted set ------------------------------- *)
\* Lexicographic order of the members 'traffic:log:<ms>-<suffix>'
\* (all <ms> have the same number of digits).
IdLess(a, b) == a[1] < b[1] \/ (a[1] = b[1] /\ a[2] < b[2])

\* Redis orders a sorted set by score, then by member.
ZLess(a, b) == a.score < b.score \/ (a.score = b.score /\ IdLess(a.id, b.id))

ZMin(S) == CHOOSE a \in S : \A b \in S \ {a} : ZLess(a, b)

\* The sorted set in rank order (rank 0 first).
RECURSIVE ZRangeAll(_)
ZRangeAll(S) ==
    IF S = {} THEN <<>> ELSE <<ZMin(S)>> \o ZRangeAll(S \ {ZMin(S)})

\* redis.zrange(key, min, max, { byScore: true }) with max = MAX_SAFE_INTEGER:
\* the ids whose score is >= min, lowest rank first.
ZRangeByScore(S, min) ==
    LET sel == ZRangeAll({e \in S : e.score >= min})
    IN  [i \in 1..Len(sel) |-> sel[i].id]

\* a trim that is skipped
NoTrim(S, keep) == S

\* redis.zremrangebyrank(key, 0, -(keep + 1)): removes ranks 0 .. n-keep-1,
\* that is, everything but the 'keep' highest-ranked members.
ZRemRangeByRank(S, keep) ==
    LET all == ZRangeAll(S)
        n   == Len(all)
    IN  IF n <= keep THEN S
        ELSE {all[i] : i \in (n - keep + 1)..n}

IndexIds == {e.id : e \in index}

UsedIds == DOMAIN records \cup {The(cur[w]).id : w \in {v \in Writers : cur[v] # Nothing}}

(* ------------------------- request handlers --------------------------- *)
\* The requests the two POST handlers distinguish.
\*   json     : req.json() resolves (the body parses)
\*   complete : the required fields are there (email and password; items,
\*              shippingAddress and paymentMethod)
\*   valid    : login: the user exists and the password matches;
\*              checkout: every entry of items is an object (not [null])
Requests ==
    [route : {"login", "checkout"}, json : BOOLEAN, complete : BOOLEAN,
     valid : BOOLEAN]

Label(route) == IF route = "login" THEN "/api/auth/login" ELSE "/api/checkout"

\* outcomes of a try block: the statuses passed to logTraffic so far, and
\* either the status of the response returned or an exception
Return(logged, status) == [calls |-> logged, threw |-> FALSE, status |-> status]
Throw(logged) == [calls |-> logged, threw |-> TRUE, status |-> 0]

\* try block of POST /api/auth/login.  In the bad-credentials branch the
\* console.log of line 52 reads the undeclared identifiers endpoint and
\* status: it throws before logTraffic(.., 401) of line 53 is reached.
LoginTry(r) ==
    IF ~r.json THEN Throw(<<>>)
    ELSE IF ~r.complete THEN Return(<<400>>, 400)
    ELSE IF ~r.valid THEN Throw(<<>>)
    ELSE Return(<<200>>, 200)

\* try block of POST /api/checkout.  logTraffic(.., 200) of line 331 runs
\* before the response is built; items.reduce of line 339 reads
\* item.price and throws when an entry is null.
CheckoutTry(r) ==
    IF ~r.json THEN Throw(<<>>)
    ELSE IF ~r.complete THEN Return(<<400>>, 400)
    ELSE IF ~r.valid THEN Throw(<<200>>)
    ELSE Return(<<200>>, 200)

\* catch block of both handlers: logTraffic(.., 500), response 500
Catch(t) == IF t.threw THEN Return(Append(t.calls, 500), 500) ELSE t

POST(r) == Catch(IF r.route = "login" THEN LoginTry(r) ELSE CheckoutTry(r))

\* the statuses the handler passes to logTraffic, in call order
HandlerCalls(r) == POST(r).calls

\* the status of the response the handler returns
HandlerResponse(r) == POST(r).status

(* ---------------------------- logTraffic ------------------------------ *)
\* src/utils/file-traffic-logger.ts:78  if (logs.length > 1000)  (scaled)
FILE_MAX_LOGS == 2

\* The request headers the resolver reads: cf-connecting-ip, x-real-ip and
\* x-forwarded-for, the last one as its comma-separated, trimmed entries.
\* Nothing is an absent header, "" an empty value.
HeaderSets ==
    [cf   : {Nothing, Some(""), Some("cf")},
     real : {Nothing, Some("real")},
     xff  : {Nothing, Some(<<"c">>), Some(<<"c", "d">>)}]

NoHeaders == [cf |-> Nothing, real |-> Nothing, xff |-> Nothing]

\* if (header): the header is present and not the empty string
TruthyHeader(h) == h # Nothing /\ The(h) # ""

\* traffic-logger.ts getClientIp
getClientIp(h) ==
    IF TruthyHeader(h.cf) THEN The(h.cf)
    ELSE IF TruthyHeader(h.real) THEN The(h.real)
    ELSE IF h.xff # Nothing /\ Len(The(h.xff)) > 0 /\ The(h.xff)[1] # ""
         THEN The(h.xff)[1]
    ELSE "unknown"

\* file-traffic-logger.ts getClientIp: x-forwarded-for only, the second
\* entry when there is one
fileGetClientIp(h) ==
    IF h.xff # Nothing
    THEN LET ips == The(h.xff)
         IN  IF Len(ips) > 1 /\ ips[2] # "" THEN ips[2]
             ELSE IF Len(ips) > 0 /\ ips[1] # "" THEN ips[1]
             ELSE "unknown"
    ELSE "unknown"

\* The record logTraffic builds (the fields the read path looks at, the
\* resolved address and the headers it was resolved from).
LogEntry(ts, endpoint, bot, h, clientIp) ==
    [timestamp |-> ts, endpoint |-> endpoint, method |-> "POST",
     statusCode |-> 200, isBot |-> bot,
     ip |-> clientIp, realIp |-> clientIp, headers |-> h]

\* a trim that keeps the first FILE_MAX_LOGS records
FileLogTrafficKeepFirst(f, entry) ==
    SubSeq(Append(f, entry), 1, Min(Len(f) + 1, FILE_MAX_LOGS))

\* file-traffic-logger.ts logTraffic: read the file, push, keep the last
\* FILE_MAX_LOGS, write the file back.  All calls are synchronous.
FileLogTraffic(f, entry) == SliceLast(Append(f, entry), FILE_MAX_LOGS)

\* The three clock reads at the head of logTraffic (new Date(), Date.now()
\* for the id, Date.now() for the score) when the first one returns t: the
\* clock may move on by a millisecond between two reads.
ClockReads(t) ==
    {r \in {<<t, t, t>>, <<t, t, t + 1>>, <<t, t + 1, t + 1>>} : r[3] <= MaxTime}

\* logTraffic(req, label, status), up to its first await.  In production
\* the entry is built and the call goes on to redis.set; in development the
\* whole call is synchronous file I/O.
LogTrafficBegin(w, label, bot, h) ==
    /\ ncalls' = ncalls + 1
    /\ failed' = [failed EXCEPT ![w] = None]
    /\ IF isProduction
       THEN \E r \in ClockReads(now), sfx \in Suffixes :
               /\ <<r[2], sfx>> \notin UsedIds
               /\ cur' = [cur EXCEPT ![w] =
                            Some([id |-> <<r[2], sfx>>, score |-> r[3],
                                  rec |-> LogEntry(r[1], label, bot, h,
                                                  getClientIp(h))])]
               /\ now' = r[3]
               /\ pc' = [pc EXCEPT ![w] = "set"]
               /\ file' = file
       ELSE /\ file' = FileLogTraffic(file,
                        LogEntry(now, label, bot, h, fileGetClientIp(h)))
            /\ pc' = [pc EXCEPT ![w] = "ret"]
            /\ UNCHANGED <<now, cur>>
    /\ UNCHANGED <<isProduction, records, index, appended, clientVars>>
    /\ lastQuery' = Nothing
    /\ UNCHANGED counterVars

\* a redis.set that is not awaited: the call goes on before the record is
\* written
RedisSetNotAwaited(w) ==
    /\ pc[w] = "set"
    /\ pc' = [pc EXCEPT ![w] = "zadd"]
    /\ UNCHANGED <<now, isProduction, records, index, file, req, cur, calls,
                   failed, appended, ncalls, clientVars>>
    /\ lastQuery' = Nothing
    /\ UNCHANGED counterVars

\* await redis.set(logId, jsonData, { ex: 1800 })
RedisSet(w) ==
    /\ pc[w] = "set"
    /\ records' = records @@ (The(cur[w]).id :> The(cur[w]).rec)
    /\ pc' = [pc EXCEPT ![w] = "zadd"]
    /\ UNCHANGED <<now, isProduction, index, file, req, cur, calls, failed,
                   appended, ncalls, clientVars>>
    /\ lastQuery' = Nothing
    /\ UNCHANGED counterVars

\* await redis.zadd(LOGS_LIST_KEY, { score: score, member: logId })
RedisZadd(w) ==
    /\ pc[w] = "zadd"
    /\ index' = index \cup {[id |-> The(cur[w]).id, score |-> The(cur[w]).score]}
    /\ appended' = Append(appended, The(cur[w]).id)
    /\ pc' = [pc EXCEPT ![w] = "zrem"]
    /\ UNCHANGED <<now, isProduction, records, file, req, cur, calls, failed,
                   ncalls, clientVars>>
    /\ lastQuery' = Nothing
    /\ UNCHANGED counterVars

\* await redis.zremrangebyrank(LOGS_LIST_KEY, 0, -(MAX_LOGS + 1))
RedisZremrangebyrank(w) ==
    /\ pc[w] = "zrem"
    /\ index' = ZRemRangeByRank(index, MAX_LOGS)
    /\ pc' = [pc EXCEPT ![w] = "ret"]
    /\ cur' = [cur EXCEPT ![w] = Nothing]
    /\ UNCHANGED <<now, isProduction, records, file, req, calls, failed,
                   appended, ncalls, clientVars>>
    /\ lastQuery' = Nothing
    /\ UNCHANGED counterVars

\* A handler calls logTraffic for a request it serves (the store pipeline
\* does not depend on the status code logged).
Request(w) ==
    /\ pc[w] = "idle"
    /\ ncalls < MaxCalls
    /\ \E label \in Endpoints : LogTrafficBegin(w, label, FALSE, NoHeaders)
    /\ UNCHANGED <<req, calls>>

\* A handler calls logTraffic for a request that came through proxies.
ProxiedRequest(w) ==
    /\ pc[w] = "idle"
    /\ ncalls < MaxIpCalls
    /\ \E label \in Endpoints, h \in HeaderSets :
          LogTrafficBegin(w, label, FALSE, h)
    /\ UNCHANGED <<req, calls>>

\* a try block that closes before the trim
TryStopsBeforeTrim(step) == step # "zrem"

\* A handler takes up a request.
StartRequest(w) ==
    /\ pc[w] = "idle"
    /\ ncalls < MaxCalls
    /\ \E r \in Requests :
          req' = [req EXCEPT ![w] = Some([request |-> r, response |-> Nothing])]
    /\ calls' = [calls EXCEPT ![w] = <<>>]
    /\ pc' = [pc EXCEPT ![w] = "handler"]
    /\ UNCHANGED <<now, isProduction, storeVars, cur, failed, appended, ncalls,
                   clientVars>>
    /\ lastQuery' = Nothing
    /\ UNCHANGED counterVars

\* The handler reaches its next await logTraffic(req, label, status).
HandlerLogs(w) ==
    /\ pc[w] = "handler"
    /\ LET r == The(req[w]).request
           k == Len(calls[w]) + 1
       IN  /\ k <= Len(HandlerCalls(r))
           /\ calls' = [calls EXCEPT ![w] =
                  Append(@, [label |-> Label(r.route),
                             status |-> HandlerCalls(r)[k]])]
           /\ LogTrafficBegin(w, Label(r.route), FALSE, NoHeaders)
    /\ UNCHANGED req

\* logTraffic has resolved and the handler goes on.
HandlerResumes(w) ==
    /\ pc[w] = "ret"
    /\ req[w] # Nothing
    /\ pc' = [pc EXCEPT ![w] = "handler"]
    /\ cur' = [cur EXCEPT ![w] = Nothing]
    /\ UNCHANGED <<now, isProduction, storeVars, req, calls, failed, appended,
                   ncalls, clientVars>>
    /\ lastQuery' = Nothing
    /\ UNCHANGED counterVars

\* The handler returns its response.
HandlerReturns(w) ==
    /\ pc[w] = "handler"
    /\ LET r == The(req[w]).request
       IN  /\ Len(calls[w]) = Len(HandlerCalls(r))
           /\ req' = [req EXCEPT ![w] =
                  Some([request |-> r, response |-> Some(HandlerResponse(r))])]
    /\ pc' = [pc EXCEPT ![w] = "done"]
    /\ UNCHANGED <<now, isProduction, storeVars, cur, calls, failed, appended,
                   ncalls, clientVars>>
    /\ lastQuery' = Nothing
    /\ UNCHANGED counterVars

\* The response is sent; the handler is free for the next request.
Finish(w) ==
    /\ pc[w] = "done"
    /\ pc' = [pc EXCEPT ![w] = "idle"]
    /\ req' = [req EXCEPT ![w] = Nothing]
    /\ calls' = [calls EXCEPT ![w] = <<>>]
    /\ UNCHANGED <<now, isProduction, storeVars, cur, failed, appended, ncalls,
                   clientVars>>
    /\ lastQuery' = Nothing
    /\ UNCHANGED counterVars

\* the try block of logTraffic encloses the step (all of them: the block
\* opens the function body and closes after the last store call)
TryCovers(step) == TRUE

\* where a call of logTraffic goes when one of its steps throws: into the
\* catch block, which logs and lets the call return, or out to the caller
AfterThrow(step) == IF TryCovers(step) THEN "ret" ELSE "threw"

\* A store call of logTraffic (redis.set, zadd or zremrangebyrank) rejects.
StepFails(w) ==
    /\ pc[w] \in {"set", "zadd", "zrem"}
    /\ failed' = [failed EXCEPT ![w] = pc[w]]
    /\ pc' = [pc EXCEPT ![w] = AfterThrow(pc[w])]
    /\ UNCHANGED <<now, isProduction, storeVars, req, cur, calls, appended,
                   ncalls, clientVars>>
    /\ lastQuery' = Nothing
    /\ UNCHANGED counterVars

\* logTraffic of the file backend is called and its file read or write
\* throws: the file stays as it was.
FileStepFails(w) ==
    /\ pc[w] = "idle"
    /\ ~isProduction
    /\ ncalls < MaxCalls
    /\ ncalls' = ncalls + 1
    /\ failed' = [failed EXCEPT ![w] = "file"]
    /\ pc' = [pc EXCEPT ![w] = AfterThrow("file")]
    /\ UNCHANGED <<now, isProduction, storeVars, req, cur, calls, appended,
                   clientVars>>
    /\ lastQuery' = Nothing
    /\ UNCHANGED counterVars

\* logTraffic has resolved and the handler has answered.
Respond(w) ==
    /\ pc[w] = "ret"
    /\ pc' = [pc EXCEPT ![w] = "idle"]
    /\ cur' = [cur EXCEPT ![w] = Nothing]
    /\ UNCHANGED <<now, isProduction, storeVars, req, calls, failed,
                   appended, ncalls, clientVars>>
    /\ lastQuery' = Nothing
    /\ UNCHANGED counterVars

\* A millisecond passes.
Tick ==
    /\ now < MaxTime
    /\ now' = now + 1
    /\ UNCHANGED <<isProduction, storeVars, writerVars, clientVars>>
    /\ lastQuery' = Nothing
    /\ UNCHANGED counterVars

(* ---------------- logTraffic, count-then-trim variant ---------------- *)
\* redis.zrange(key, 0, stop): the ids of ranks 0 .. stop, lowest rank first
ZRangeByRank(S, stop) ==
    LET all == ZRangeAll(S)
    IN  [i \in 1..Min(stop + 1, Len(all)) |-> all[i].id]

\* redis.zremrangebyrank(key, 0, stop): removes ranks 0 .. stop
ZRemRangeByRankTo(S, stop) ==
    LET all == ZRangeAll(S)
    IN  {all[i] : i \in (Min(stop + 1, Len(all)) + 1)..Len(all)}

\* redis.del(...ids)
RedisDelKeys(recs, ids) == [k \in DOMAIN recs \ Range(ids) |-> recs[k]]

\* logTraffic of the variant up to its first await: timestamp and logId are
\* made from two clock reads; the score is read when zadd is called.
CountTrimRequest(w) ==
    /\ isProduction
    /\ pc[w] = "idle"
    /\ ncalls < MaxCalls
    /\ \E label \in Endpoints, r \in ClockReads(now), sfx \in Suffixes :
          /\ <<r[2], sfx>> \notin UsedIds
          /\ cur' = [cur EXCEPT ![w] =
                       Some([id |-> <<r[2], sfx>>,
                             rec |-> LogEntry(r[1], label, FALSE, NoHeaders,
                                              getClientIp(NoHeaders)),
                             count |-> 0, oldestLogIds |-> <<>>])]
          /\ now' = r[2]
    /\ ncalls' = ncalls + 1
    /\ failed' = [failed EXCEPT ![w] = None]
    /\ pc' = [pc EXCEPT ![w] = "ct_set"]
    /\ UNCHANGED <<isProduction, storeVars, req, calls, appended, clientVars,
                   counterVars>>
    /\ lastQuery' = Nothing

\* await redis.set(logId, JSON.stringify(logEntry), { ex: 1800 })
CountTrimSet(w) ==
    /\ pc[w] = "ct_set"
    /\ records' = records @@ (The(cur[w]).id :> The(cur[w]).rec)
    /\ pc' = [pc EXCEPT ![w] = "ct_zadd"]
    /\ UNCHANGED <<now, isProduction, index, file, req, cur, calls, failed,
                   appended, ncalls, clientVars, counterVars>>
    /\ lastQuery' = Nothing

\* await redis.zadd(LOGS_LIST_KEY, { score: Date.now(), member: logId })
CountTrimZadd(w) ==
    /\ pc[w] = "ct_zadd"
    /\ index' = index \cup {[id |-> The(cur[w]).id, score |-> now]}
    /\ appended' = Append(appended, The(cur[w]).id)
    /\ pc' = [pc EXCEPT ![w] = "ct_zcard"]
    /\ UNCHANGED <<now, isProduction, records, file, req, cur, calls, failed,
                   ncalls, clientVars, counterVars>>
    /\ lastQuery' = Nothing

\* const count = await redis.zcard(LOGS_LIST_KEY); if (count > MAX_LOGS)
CountTrimZcard(w) ==
    /\ pc[w] = "ct_zcard"
    /\ LET count == Cardinality(index)
       IN  /\ cur' = [cur EXCEPT ![w] = Some([The(@) EXCEPT !.count = count])]
           /\ pc' = [pc EXCEPT ![w] = IF count > MAX_LOGS THEN "ct_zrange"
                                      ELSE "ret"]
    /\ UNCHANGED <<now, isProduction, storeVars, req, calls, failed, appended,
                   ncalls, clientVars, counterVars>>
    /\ lastQuery' = Nothing

\* const oldestLogIds = await redis.zrange(key, 0, count - MAX_LOGS - 1)
CountTrimZrange(w) ==
    /\ pc[w] = "ct_zrange"
    /\ cur' = [cur EXCEPT ![w] = Some([The(@) EXCEPT !.oldestLogIds =
                  ZRangeByRank(index, The(cur[w]).count - MAX_LOGS - 1)])]
    /\ pc' = [pc EXCEPT ![w] = "ct_del"]
    /\ UNCHANGED <<now, isProduction, storeVars, req, calls, failed, appended,
                   ncalls, clientVars, counterVars>>
    /\ lastQuery' = Nothing

\* if (oldestLogIds.length > 0) await redis.del(...oldestLogIds)
CountTrimDel(w) ==
    /\ pc[w] = "ct_del"
    /\ records' = RedisDelKeys(records, The(cur[w]).oldestLogIds)
    /\ pc' = [pc EXCEPT ![w] = "ct_zrem"]
    /\ UNCHANGED <<now, isProduction, index, file, req, cur, calls, failed,
                   appended, ncalls, clientVars, counterVars>>
    /\ lastQuery' = Nothing

\* await redis.zremrangebyrank(key, 0, count - MAX_LOGS - 1)
CountTrimZrem(w) ==
    /\ pc[w] = "ct_zrem"
    /\ index' = ZRemRangeByRankTo(index, The(cur[w]).count - MAX_LOGS - 1)
    /\ pc' = [pc EXCEPT ![w] = "ret"]
    /\ UNCHANGED <<now, isProduction, records, file, req, cur, calls, failed,
                   appended, ncalls, clientVars, counterVars>>
    /\ lastQuery' = Nothing

(* ----------------------------- read path ------------------------------ *)
\* JavaScript truthiness of an optional number / an optional string.
TruthyNum(o) == o # Nothing /\ The(o) # 0
TruthyStr(o) == o # Nothing /\ The(o) # ""

\* new Date(log.timestamp).getTime() of the record stored under an id
TimestampOf(id) == records[id].timestamp

\* Array.prototype.sort((a, b) => time(b) - time(a)): newest first; the sort
\* is stable, so records with equal timestamps keep their order.
InsertNewestFirst(sorted, id) ==
    LET k == Cardinality({i \in 1..Len(sorted) :
                             TimestampOf(sorted[i]) >= TimestampOf(id)})
    IN  SubSeq(sorted, 1, k) \o <<id>> \o SubSeq(sorted, k + 1, Len(sorted))

RECURSIVE SortNewestFirst(_)
SortNewestFirst(s) ==
    IF s = <<>> THEN <<>>
    ELSE InsertNewestFirst(SortNewestFirst(SubSeq(s, 1, Len(s) - 1)), s[Len(s)])

\* const minScore = options.since ? options.since + 1 : 0
MinScore(since) == IF TruthyNum(since) THEN The(since) + 1 ELSE 0

\* if (options.limit && logIds.length > options.limit)
\*     logIds = logIds.slice(-options.limit)
ApplyLimit(logIds, limit) ==
    IF TruthyNum(limit) /\ Len(logIds) > The(limit)
    THEN SliceLast(logIds, The(limit)) ELSE logIds

\* The endpoint / method / isBot filters of getTrafficLogs.
MatchesFilters(rec, o) ==
    /\ TruthyStr(o.endpoint) => rec.endpoint = The(o.endpoint)
    /\ TruthyStr(o.method) => rec.method = The(o.method)
    /\ o.isBot # Nothing => rec.isBot = The(o.isBot)

\* Time to live of a record key, in milliseconds ({ ex: 1800 }, scaled).
RECORD_TTL == 2

\* What a key holds after something other than logTraffic overwrote it
\* with a value that is not a JSON object.
NotAnObject == [raw |-> "not json"]

\* data !== null && typeof data === 'object'
IsObject(v) == "raw" \notin DOMAIN v

\* the ids of logIds whose value mget returned and the filter kept: mget
\* gives null for a key that does not exist (any more)
Usable(id) == id \in DOMAIN records /\ IsObject(records[id])

\* a parse that throws on the first value that is not JSON: the catch block
\* of the query then returns []
DeserializeUnguarded(logIds) ==
    IF \E i \in 1..Len(logIds) :
          logIds[i] \in DOMAIN records /\ ~IsObject(records[logIds[i]])
    THEN <<>>
    ELSE SelectSeq(logIds, Usable)

\* logData.filter(data => data !== null && typeof data === 'object')
Deserialize(logIds) == SelectSeq(logIds, Usable)

\* getTrafficLogs(options).  The result is the sequence of the ids whose
\* records are returned, in the order returned.
getTrafficLogs(o) ==
    LET logIds   == ApplyLimit(ZRangeByScore(index, MinScore(o.since)), o.limit)
        logs     == Deserialize(logIds)
        keep(id) == MatchesFilters(records[id], o)
        filtered == SelectSeq(logs, keep)
    IN  SortNewestFirst(filtered)

NoOptions ==
    [since |-> Nothing, endpoint |-> Nothing, method |-> Nothing,
     isBot |-> Nothing, limit |-> Nothing]

\* GET /api/traffic/incremental?since=<since>  (numeric since, or absent)
IncrementalGET(since) ==
    LET newLogs == getTrafficLogs([NoOptions EXCEPT !.since = since,
                                      !.limit = Some(INCREMENTAL_LIMIT)])
        latestLogTimestampMs ==
            IF Len(newLogs) > 0 THEN Some(TimestampOf(newLogs[1])) ELSE Nothing
        nextSinceTimestamp ==
            IF latestLogTimestampMs # Nothing THEN The(latestLogTimestampMs)
            ELSE IF since # Nothing THEN The(since)
            ELSE now
    IN  [status |-> 200, logs |-> newLogs, latestTimestamp |-> nextSinceTimestamp]

\* A client polls the incremental endpoint with the latestTimestamp of the
\* previous response as 'since' (no 'since' on its first call).
EchoPoll ==
    /\ isProduction
    /\ npolls < MaxPolls
    /\ LET r == IncrementalGET(cursor)
       IN  /\ delivered' = delivered \o r.logs
           /\ cursor' = Some(r.latestTimestamp)
           /\ lastResponse' = Some([since |-> cursor, logs |-> r.logs,
                                    latestTimestamp |-> r.latestTimestamp,
                                    at |-> Len(appended)])
    /\ npolls' = npolls + 1
    /\ UNCHANGED <<now, isProduction, storeVars, writerVars, view, dash>>
    /\ lastQuery' = Nothing
    /\ UNCHANGED counterVars

(* ------------------- the incremental dashboard component -------------- *)
\* Length limit of each log array of the component (200, scaled).
MAX_LOGS_IN_STATE == 2

\* The component before it is mounted: empty arrays, loading, no error, no
\* timer.  requests holds the fetches that have not been answered yet,
\* responses the answers the server has sent and the component has not
\* received yet, fetched the last fetch that was answered and whether its
\* response was OK.
InitialView ==
    [mounted |-> FALSE, unmounted |-> FALSE, loading |-> TRUE,
     error |-> Nothing, loginLogs |-> <<>>, checkoutLogs |-> <<>>,
     recentLogs |-> <<>>, pollingSet |-> FALSE, intervalRef |-> Nothing,
     timers |-> {}, requests |-> {}, responses |-> {}, fetched |-> Nothing]

\* a log as the response carries it
LogOf(id) ==
    [id |-> id, endpoint |-> records[id].endpoint,
     timestamp |-> records[id].timestamp]

LogsOf(ids) == [i \in 1..Len(ids) |-> LogOf(ids[i])]

\* a buffer that drops its newest entries on overflow
PrependKeepOldest(newLogs, prev) == SliceLast(newLogs \o prev, MAX_LOGS_IN_STATE)

\* [...newLogs, ...prev].slice(0, MAX_LOGS_IN_STATE)
Prepend(newLogs, prev) == SliceFirst(newLogs \o prev, MAX_LOGS_IN_STATE)

\* processNewLogs(newLogs): the three arrays after the call
processNewLogs(v, newLogs) ==
    IF Len(newLogs) = 0 THEN v
    ELSE LET isLogin(log) == log.endpoint = "/api/auth/login"
             isCheckout(log) == log.endpoint = "/api/checkout"
             newLoginLogs == SelectSeq(newLogs, isLogin)
             newCheckoutLogs == SelectSeq(newLogs, isCheckout)
         IN  [v EXCEPT
                !.loginLogs = IF Len(newLoginLogs) > 0
                              THEN Prepend(newLoginLogs, @) ELSE @,
                !.checkoutLogs = IF Len(newCheckoutLogs) > 0
                                 THEN Prepend(newCheckoutLogs, @) ELSE @,
                !.recentLogs = Prepend(newLogs, @)]

\* the fetch fetchUpdates(isInitialLoad) sends: since = cursor + 1 unless it
\* is the initial load or the cursor is not set; the cursor it read is kept
\* for the comparison after the response.
NewRequest(isInitialLoad) ==
    [poll |-> npolls + 1, isInitialLoad |-> isInitialLoad,
     currentLatestTimestamp |-> cursor,
     since |-> IF ~isInitialLoad /\ TruthyNum(cursor)
               THEN Some(The(cursor) + 1) ELSE Nothing]

\* The component mounts: the initial-load effect calls fetchUpdates(true);
\* the polling effect returns at once, loading being true.
MountView ==
    /\ ~view.mounted /\ ~view.unmounted
    /\ npolls < MaxPolls
    /\ view' = [view EXCEPT !.mounted = TRUE,
                            !.requests = @ \cup {NewRequest(TRUE)}]
    /\ npolls' = npolls + 1
    /\ UNCHANGED <<now, isProduction, storeVars, writerVars, cursor, delivered,
                   lastResponse, counterVars, dash>>
    /\ lastQuery' = Nothing

\* The polling effect runs after loading has become false: it clears the
\* interval held in intervalRef, if any, and starts a new one.
SetupPolling ==
    /\ view.mounted /\ ~view.loading /\ ~view.pollingSet
    /\ LET t == Cardinality(view.timers) + 1
       IN  view' = [view EXCEPT
                       !.pollingSet = TRUE,
                       !.timers = (@ \ view.intervalRef) \cup {t},
                       !.intervalRef = Some(t)]
    /\ UNCHANGED <<now, isProduction, storeVars, writerVars, cursor, delivered,
                   npolls, lastResponse, counterVars, dash>>
    /\ lastQuery' = Nothing

\* An interval timer fires: fetchUpdates(false) sends its fetch.
TimerFires ==
    /\ view.timers # {}
    /\ npolls < MaxPolls
    /\ view' = [view EXCEPT !.requests = @ \cup {NewRequest(FALSE)}]
    /\ npolls' = npolls + 1
    /\ UNCHANGED <<now, isProduction, storeVars, writerVars, cursor, delivered,
                   lastResponse, counterVars, dash>>
    /\ lastQuery' = Nothing

\* finally { if (isInitialLoad) setLoading(false) }
AfterFetch(v, rq, ok) ==
    [v EXCEPT !.loading = IF rq.isInitialLoad THEN FALSE ELSE @,
              !.requests = @ \ {rq},
              !.fetched = Some([poll |-> rq.poll, ok |-> ok])]

\* a catch block that also throws the logs away
CatchDropsLogs(v, message) ==
    [v EXCEPT !.error = Some(message), !.recentLogs = <<>>]

\* catch (err) { setError(err.message) }
CatchFetchError(v, message) == [v EXCEPT !.error = Some(message)]

\* if (data.latestTimestamp && (!currentLatestTimestamp ||
\*     data.latestTimestamp > currentLatestTimestamp))
\*   latestTimestampRef.current = data.latestTimestamp
\* where currentLatestTimestamp is the cursor the fetch started from
UpdateLatestTimestamp(rq, latestTimestamp) ==
    IF /\ latestTimestamp # 0
       /\ \/ ~TruthyNum(rq.currentLatestTimestamp)
          \/ latestTimestamp > The(rq.currentLatestTimestamp)
    THEN Some(latestTimestamp) ELSE cursor

\* fetchUpdates after await fetch(url) has returned the 200 response r to
\* the fetch rq: processNewLogs, the cursor update, setError(null), finally.
ReceiveResponse(v, rq, r) ==
    /\ view' = AfterFetch([processNewLogs(v, LogsOf(r.logs))
                              EXCEPT !.error = Nothing], rq, TRUE)
    /\ cursor' = UpdateLatestTimestamp(rq, r.latestTimestamp)
    /\ delivered' = delivered \o r.logs
    /\ lastResponse' = Some([since |-> rq.since, logs |-> r.logs,
                             latestTimestamp |-> r.latestTimestamp,
                             at |-> Len(appended)])

\* The server answers a fetch with 200 and the component receives the
\* response at once: processNewLogs, the cursor moves forward when the
\* response's latestTimestamp is greater than the cursor the fetch started
\* from, the error is cleared.
PollSucceeds ==
    /\ \E rq \in view.requests :
          ReceiveResponse(view, rq, IncrementalGET(rq.since))
    /\ UNCHANGED <<now, isProduction, storeVars, writerVars, npolls,
                   counterVars, dash>>
    /\ lastQuery' = Nothing

\* The server handles a fetch and sends its 200 response, which is on its
\* way to the component.
ServerResponds ==
    /\ \E rq \in view.requests :
          LET r == IncrementalGET(rq.since)
          IN  view' = [view EXCEPT
                          !.requests = @ \ {rq},
                          !.responses = @ \cup
                              {[rq |-> rq, logs |-> r.logs,
                                latestTimestamp |-> r.latestTimestamp]}]
    /\ UNCHANGED <<now, isProduction, storeVars, writerVars, cursor, delivered,
                   npolls, lastResponse, counterVars, dash>>
    /\ lastQuery' = Nothing

\* A response arrives, in whatever order the network delivers them.
ResponseArrives ==
    /\ \E rs \in view.responses :
          ReceiveResponse([view EXCEPT !.responses = @ \ {rs}], rs.rq, rs)
    /\ UNCHANGED <<now, isProduction, storeVars, writerVars, npolls,
                   counterVars, dash>>
    /\ lastQuery' = Nothing

\* A fetch fails (network error, or a status that is not OK): the catch
\* block sets the error.
PollFails ==
    /\ \E rq \in view.requests :
          view' = AfterFetch(CatchFetchError(view, "API error"), rq, FALSE)
    /\ UNCHANGED <<now, isProduction, storeVars, writerVars, cursor, delivered,
                   npolls, lastResponse, counterVars, dash>>
    /\ lastQuery' = Nothing

\* The component unmounts: the cleanup of the polling effect clears the
\* interval held in intervalRef.
UnmountView ==
    /\ view.mounted
    /\ view' = [view EXCEPT !.mounted = FALSE, !.unmounted = TRUE,
                            !.timers = IF view.pollingSet
                                       THEN @ \ view.intervalRef ELSE @]
    /\ UNCHANGED <<now, isProduction, storeVars, writerVars, cursor, delivered,
                   npolls, lastResponse, counterVars, dash>>
    /\ lastQuery' = Nothing

(* --------------------------- detail queries --------------------------- *)
\* A handler calls logTraffic for a request that may carry the bot header
\* (x-kasada-classification: bad-bot).
ClassifiedRequest(w) ==
    /\ pc[w] = "idle"
    /\ ncalls < MaxQueryCalls
    /\ \E label \in Endpoints, bot \in BOOLEAN :
          LogTrafficBegin(w, label, bot, NoHeaders)
    /\ UNCHANGED <<req, calls>>

\* The options a caller of getTrafficLogs may pass.
QueryOptions ==
    [since    : {Nothing} \cup {Some(t) : t \in 0..MaxTime},
     endpoint : {Nothing} \cup {Some(e) : e \in Endpoints},
     method   : {Nothing, Some("POST")},
     isBot    : {Nothing, Some(TRUE), Some(FALSE)},
     limit    : {Nothing} \cup {Some(n) : n \in 1..MAX_LOGS}]

\* A caller runs getTrafficLogs(o); lastQuery holds the call and its result
\* until the next step of the system.
DetailQuery ==
    /\ lastQuery = Nothing
    /\ \E o \in QueryOptions :
          lastQuery' = Some([op |-> "getTrafficLogs", opts |-> o,
                             n |-> Len(getTrafficLogs(o)),
                             res |-> getTrafficLogs(o)])
    /\ UNCHANGED <<now, isProduction, storeVars, writerVars, clientVars,
                   counterVars>>

\* GET /api/traffic?endpoint=&method=&isBot=&limit= .  The route reads
\* endpoint, timeWindow, method and isBot; a limit parameter is not read.
\* In production it returns getTrafficLogs of those filters, in
\* development the filtered content of the log file.
TrafficGET(q) ==
    IF isProduction
    THEN getTrafficLogs([NoOptions EXCEPT !.endpoint = q.endpoint,
                            !.method = q.method, !.isBot = q.isBot])
    ELSE LET keep(rec) == MatchesFilters(rec, q) IN SelectSeq(file, keep)

\* A client requests GET /api/traffic.
FullQuery ==
    /\ lastQuery = Nothing
    /\ \E q \in {o \in QueryOptions : o.since = Nothing} :
          lastQuery' = Some([op |-> "GET /api/traffic", opts |-> q,
                             n |-> Len(TrafficGET(q)), res |-> <<>>])
    /\ UNCHANGED <<now, isProduction, storeVars, writerVars, clientVars,
                   counterVars>>

(* ------------------------ reads of a decaying store ------------------- *)
\* The key of a record runs out of its time to live; its id stays in the
\* index, which has no expiry of its own.
RecordExpires ==
    /\ \E id \in DOMAIN records :
          /\ IsObject(records[id])
          /\ now - records[id].timestamp >= RECORD_TTL
          /\ records' = [k \in DOMAIN records \ {id} |-> records[k]]
    /\ UNCHANGED <<now, isProduction, index, file, writerVars, clientVars>>
    /\ lastQuery' = Nothing
    /\ UNCHANGED counterVars

\* Another client of the store overwrites a record key with a value that
\* is not a JSON object.
RecordCorrupted ==
    /\ \E id \in DOMAIN records :
          /\ IsObject(records[id])
          /\ records' = [records EXCEPT ![id] = NotAnObject]
    /\ UNCHANGED <<now, isProduction, index, file, writerVars, clientVars>>
    /\ lastQuery' = Nothing
    /\ UNCHANGED counterVars

\* The options of the queries made against the decaying store: the filters,
\* without since and limit.
ReadOptions ==
    {o \in QueryOptions : o.since = Nothing /\ o.limit = Nothing}

\* A caller runs getTrafficLogs(o) with filters only.
ReadQuery ==
    /\ lastQuery = Nothing
    /\ \E o \in ReadOptions :
          lastQuery' = Some([op |-> "getTrafficLogs", opts |-> o,
                             n |-> Len(getTrafficLogs(o)),
                             res |-> getTrafficLogs(o)])
    /\ UNCHANGED <<now, isProduction, storeVars, writerVars, clientVars,
                   counterVars>>

\* getTrafficLogs(o) when the store may be unreachable: a rejected zrange or
\* mget lands in the catch block, which returns [].
getTrafficLogsOrCatch(o, storeDown) ==
    IF storeDown THEN <<>> ELSE getTrafficLogs(o)

\* GET /api/traffic when reading the backing store may fail: the status of
\* the response and the number of records in its body.  In production the
\* route returns what getTrafficLogs returns; in development a file that
\* cannot be read or parsed throws into the route's catch block.
TrafficResponse(q, storeDown) ==
    IF isProduction
    THEN [status |-> 200,
          n |-> Len(getTrafficLogsOrCatch(
                       [NoOptions EXCEPT !.endpoint = q.endpoint,
                           !.method = q.method, !.isBot = q.isBot],
                       storeDown))]
    ELSE IF storeDown THEN [status |-> 500, n |-> 0]
    ELSE [status |-> 200, n |-> Len(TrafficGET(q))]

\* A client requests GET /api/traffic while the backing store cannot be read.
FullQueryStoreDown ==
    /\ lastQuery = Nothing
    /\ \E q \in ReadOptions :
          lastQuery' = Some([op |-> "GET /api/traffic, store down", opts |-> q,
                             n |-> TrafficResponse(q, TRUE).n,
                             status |-> TrafficResponse(q, TRUE).status])
    /\ UNCHANGED <<now, isProduction, storeVars, writerVars, clientVars,
                   counterVars>>

(* --------------------------- counter store ---------------------------- *)
\* Retention of a per-second counter, in seconds (15 minutes, scaled).
COUNTER_TTL == 4
\* windowMinutes * 60 (scaled)
SECONDS_PER_MINUTE == 1

CounterGet(c, k) == IF k \in DOMAIN c THEN c[k] ELSE 0

\* increment(endpoint, atSecond): add one to the counter of that
\* endpoint-second, creating the key when it is missing.
Increment(c, endpoint, atSecond) ==
    LET k == <<endpoint, atSecond>>
    IN  [x \in DOMAIN c \cup {k} |-> IF x = k THEN CounterGet(c, k) + 1 ELSE c[x]]

\* the keys of c that have not expired at second t (the TTL is set by the
\* last increment, which happens in the key's own second)
Unexpired(c, t) ==
    LET alive == {k \in DOMAIN c : t - k[2] < COUNTER_TTL}
    IN  [k \in alive |-> c[k]]

RECURSIVE SumSeconds(_, _, _, _)
\* sum of the counters of endpoint e over the seconds from..(to - 1)
SumSeconds(c, e, from, to) ==
    IF from >= to THEN 0
    ELSE CounterGet(c, <<e, from>>) + SumSeconds(c, e, from + 1, to)

\* aggregate(startSecond, endSecond, bucketWidthSeconds): one bucket per
\* width from startSecond on while it starts before endSecond; each sums
\* the per-second counters of [startSecond, endSecond) that fall in it.
Aggregate(c, startSecond, endSecond, width) ==
    LET n == IF endSecond <= startSecond THEN 0
             ELSE ((endSecond - startSecond) + width - 1) \div width
    IN  [b \in 1..n |->
           LET bs == startSecond + (b - 1) * width
           IN  [bucketStart |-> bs,
                counts |-> [e \in Endpoints |->
                    SumSeconds(c, e, bs, Min(bs + width, endSecond))]]]

\* The recorder counts an event of a tracked endpoint in the current second.
RecordTracked ==
    /\ Len(tracked) < MaxTracked
    /\ \E e \in Endpoints :
          /\ counters' = Increment(counters, e, nowSeconds)
          /\ tracked' = Append(tracked, [endpoint |-> e, second |-> nowSeconds])
    /\ lastQuery' = Nothing
    /\ UNCHANGED <<now, isProduction, storeVars, writerVars, clientVars,
                   nowSeconds>>

\* A second passes; counters past their retention are gone.
TickSecond ==
    /\ nowSeconds < MaxSeconds
    /\ nowSeconds' = nowSeconds + 1
    /\ counters' = Unexpired(counters, nowSeconds + 1)
    /\ lastQuery' = Nothing
    /\ UNCHANGED <<now, isProduction, storeVars, writerVars, clientVars,
                   tracked>>

\* the window start passed on as it is
UnalignedStart(startTimeSeconds, intervalSeconds) == startTimeSeconds

\* Math.floor(startTimeSeconds / intervalSeconds) * intervalSeconds
AlignedStart(startTimeSeconds, intervalSeconds) ==
    (startTimeSeconds \div intervalSeconds) * intervalSeconds

\* parseInt of a query parameter: Nothing stands for NaN
ParsedInts == {Nothing} \cup {Some(n) : n \in 0..3}

\* GET /api/dashboard-data?windowMinutes=&intervalSeconds=
DashboardGET(windowMinutes, intervalSeconds) ==
    IF \/ windowMinutes = Nothing \/ intervalSeconds = Nothing
       \/ The(windowMinutes) <= 0 \/ The(intervalSeconds) <= 0
    THEN [status |-> 400, buckets |-> <<>>]
    ELSE LET startTimeSeconds ==
                 nowSeconds - The(windowMinutes) * SECONDS_PER_MINUTE
             alignedStartTimeSeconds ==
                 AlignedStart(startTimeSeconds, The(intervalSeconds))
         IN  [status |-> 200,
              buckets |-> Aggregate(counters, alignedStartTimeSeconds,
                                    nowSeconds, The(intervalSeconds))]

\* The dashboard polls the aggregate.
DashboardQuery ==
    /\ lastQuery = Nothing
    /\ \E wm \in ParsedInts, is \in ParsedInts :
          lastQuery' = Some([op |-> "GET /api/dashboard-data",
                             opts |-> [windowMinutes |-> wm,
                                       intervalSeconds |-> is],
                             n |-> DashboardGET(wm, is).status,
                             res |-> DashboardGET(wm, is).buckets])
    /\ UNCHANGED <<now, isProduction, storeVars, writerVars, clientVars,
                   counterVars>>

(* ------------------------ query parameters ---------------------------- *)
\* A query parameter as the URL carries it: Nothing when it is absent, else
\* its text.
RawParams ==
    {Nothing, Some(""), Some("abc"), Some("2abc"), Some("0"), Some("-1"),
     Some("2")}

NaN == [isNaN |-> TRUE, v |-> 0]
Num(n) == [isNaN |-> FALSE, v |-> n]

\* parseInt(text, 10): the integer the text starts with, NaN when it starts
\* with none
parseInt(text) ==
    CASE text = "2"    -> Num(2)
      [] text = "2abc" -> Num(2)
      [] text = "0"    -> Num(0)
      [] text = "-1"   -> Num(0 - 1)
      [] OTHER         -> NaN

\* parseInt(url.searchParams.get(name) || '10', 10) (defaults scaled)
DEFAULT_WINDOW_MINUTES == 2
DEFAULT_INTERVAL_SECONDS == 2

ParseOrDefault(raw, default) ==
    IF TruthyStr(raw) THEN parseInt(The(raw)) ELSE Num(default)

\* the parsed number as the handlers of the model take it: Nothing for NaN
AsOptional(p) == IF p.isNaN THEN Nothing ELSE Some(p.v)

\* GET /api/traffic/incremental?since=raw: status, and whether the store
\* was read
IncrementalRoute(raw) ==
    IF TruthyStr(raw) /\ parseInt(The(raw)).isNaN
    THEN [status |-> 400, read |-> FALSE]
    ELSE [status |-> IncrementalGET(IF TruthyStr(raw)
                                    THEN Some(parseInt(The(raw)).v)
                                    ELSE Nothing).status,
          read |-> TRUE]

\* GET /api/dashboard-data?windowMinutes=rawW&intervalSeconds=rawI
DashboardRoute(rawW, rawI) ==
    LET r == DashboardGET(
                 AsOptional(ParseOrDefault(rawW, DEFAULT_WINDOW_MINUTES)),
                 AsOptional(ParseOrDefault(rawI, DEFAULT_INTERVAL_SECONDS)))
    IN  [status |-> r.status, read |-> r.status = 200]

\* GET /api/traffic?timeWindow=raw: the parameter is parsed and passed on
\* without a check; the store is read whatever it is.
TrafficRoute(raw) ==
    [status |-> TrafficResponse(NoOptions, FALSE).status, read |-> TRUE]

\* A client calls one of the three query endpoints with some parameter text.
IncrementalRequest ==
    /\ lastQuery = Nothing
    /\ \E raw \in RawParams :
          lastQuery' = Some([op |-> "GET /api/traffic/incremental",
                             positive |-> {}, other |-> {raw},
                             status |-> IncrementalRoute(raw).status,
                             read |-> IncrementalRoute(raw).read])
    /\ UNCHANGED <<now, isProduction, storeVars, writerVars, clientVars,
                   counterVars>>

DashboardRequest ==
    /\ lastQuery = Nothing
    /\ \E rawW \in RawParams, rawI \in RawParams :
          lastQuery' = Some([op |-> "GET /api/dashboard-data",
                             positive |-> {rawW, rawI}, other |-> {},
                             status |-> DashboardRoute(rawW, rawI).status,
                             read |-> DashboardRoute(rawW, rawI).read])
    /\ UNCHANGED <<now, isProduction, storeVars, writerVars, clientVars,
                   counterVars>>

TrafficRequest ==
    /\ lastQuery = Nothing
    /\ \E raw \in RawParams :
          lastQuery' = Some([op |-> "GET /api/traffic",
                             positive |-> {raw}, other |-> {},
                             status |-> TrafficRoute(raw).status,
                             read |-> TrafficRoute(raw).read])
    /\ UNCHANGED <<now, isProduction, storeVars, writerVars, clientVars,
                   counterVars>>

(* ------------------------- combined snapshot -------------------------- *)
\* Array.prototype.reverse()
Reverse(s) == [i \in 1..Len(s) |-> s[Len(s) + 1 - i]]

\* The sizes of the snapshot routes, scaled: the 10 of the recent list, the
\* initialLimit of 50, a minute and a chart bucket (30 * 1000) in
\* milliseconds, the buckets of a minute, and the default timeWindow of 5.
RECENT_COUNT == 2
INITIAL_LIMIT == 3
MS_PER_MINUTE == 4
BUCKET_INTERVAL == 2
BUCKETS_PER_MINUTE == 2
DEFAULT_TIME_WINDOW == 1

\* getTrafficLogs({ timeWindow }) of the reader that takes a time window:
\* redis.zrange(key, 0, -1, { rev: true }) gives the ids newest first, each
\* record is read with get, null entries are dropped, and with a truthy
\* timeWindow only the records with timestamp >= now - timeWindow minutes
\* stay.  The order of the ids is kept.
getTrafficLogsInWindow(timeWindow) ==
    LET logIds     == Reverse(ZRangeByScore(index, 0))
        logs       == SelectSeq(logIds, Usable)
        cutoffTime == now - The(timeWindow) * MS_PER_MINUTE
        recentEnough(id) == TimestampOf(id) >= cutoffTime
    IN  IF TruthyNum(timeWindow) THEN SelectSeq(logs, recentEnough) ELSE logs

\* allTraffic.filter(log => log.endpoint === endpoint)
FilterEndpoint(logs, endpoint) ==
    LET is(id) == records[id].endpoint = endpoint
    IN  SelectSeq(logs, is)

\* allTraffic.slice(-10).reverse()
LastTenReversed(allTraffic) == Reverse(SliceLast(allTraffic, RECENT_COUNT))

\* [...allTraffic].sort((a, b) => time(b) - time(a)).slice(0, 10)
NewestTen(allTraffic) == SliceFirst(SortNewestFirst(allTraffic), RECENT_COUNT)

NoChart == [timestamps |-> <<>>, loginData |-> <<>>, checkoutData |-> <<>>]

\* The snapshot route that reads by time window (the first GET of the
\* combined route, and the GET of the incremental route that answers with
\* login / checkout / recent): timeWindow is parseInt of the parameter when
\* the parameter is there, else 5, and is passed on unchecked.
SnapshotGET(raw) ==
    LET timeWindow == AsOptional(ParseOrDefault(raw, DEFAULT_TIME_WINDOW))
        allTraffic == getTrafficLogsInWindow(timeWindow)
    IN  [status   |-> 200,
         fetched  |-> allTraffic,
         login    |-> FilterEndpoint(allTraffic, "/api/auth/login"),
         checkout |-> FilterEndpoint(allTraffic, "/api/checkout"),
         recent   |-> LastTenReversed(allTraffic),
         since    |-> Nothing,
         chart    |-> NoChart]

\* generateTimeBuckets(timeWindowMinutes) when new Date() returns t: two
\* buckets a minute, the last one starting at t, each 30 seconds after the
\* one before.  The labels are left out; the start times are kept.
generateTimeBuckets(timeWindowMinutes, t) ==
    LET bucketCount == timeWindowMinutes * BUCKETS_PER_MINUTE
    IN  [k \in 1..bucketCount |-> t - (bucketCount - k) * BUCKET_INTERVAL]

\* fillBuckets(timeBuckets, logs): a log counts in bucket i when its time is
\* in [timestamps[i], timestamps[i + 1]), and in the last bucket when its
\* time is >= the start of the last bucket.
fillBuckets(timestamps, logs) ==
    LET n == Len(timestamps)
        inBucket(i, id) ==
            IF i < n
            THEN /\ TimestampOf(id) >= timestamps[i]
                 /\ TimestampOf(id) < timestamps[i + 1]
            ELSE TimestampOf(id) >= timestamps[n]
    IN  [i \in 1..n |->
            Cardinality({j \in 1..Len(logs) : inBucket(i, logs[j])})]

\* The clock read of generateTimeBuckets comes after the await of the
\* store read: it returns the time of the route's Date.now() or a later one.
LaterReads(t) == {r \in {t, t + 1} : r <= MaxQueryTime}

\* GET /api/traffic/combined?timeWindow=raw, the last GET of the route,
\* when generateTimeBuckets reads the clock as bucketNow.
CombinedGET(raw, bucketNow) ==
    LET p == ParseOrDefault(raw, DEFAULT_TIME_WINDOW)
    IN  IF p.isNaN \/ p.v <= 0
        THEN [status |-> 400, fetched |-> <<>>, login |-> <<>>,
              checkout |-> <<>>, recent |-> <<>>, since |-> Nothing,
              chart |-> NoChart]
        ELSE LET sinceTimestampMs == now - p.v * MS_PER_MINUTE
                 allTraffic ==
                     getTrafficLogs([NoOptions EXCEPT
                                        !.since = Some(sinceTimestampMs),
                                        !.limit = Some(INITIAL_LIMIT)])
                 loginTraffic    == FilterEndpoint(allTraffic, "/api/auth/login")
                 checkoutTraffic == FilterEndpoint(allTraffic, "/api/checkout")
                 timeBuckets     == generateTimeBuckets(p.v, bucketNow)
             IN  [status   |-> 200,
                  fetched  |-> allTraffic,
                  login    |-> loginTraffic,
                  checkout |-> checkoutTraffic,
                  recent   |-> NewestTen(allTraffic),
                  since    |-> Some(sinceTimestampMs),
                  chart    |-> [timestamps   |-> timeBuckets,
                                loginData    |-> fillBuckets(timeBuckets, loginTraffic),
                                checkoutData |-> fillBuckets(timeBuckets, checkoutTraffic)]]

\* A millisecond passes; the snapshot routes are still called when no more
\* requests are logged.
LateTick ==
    /\ now < MaxQueryTime
    /\ now' = now + 1
    /\ UNCHANGED <<isProduction, storeVars, writerVars, clientVars>>
    /\ lastQuery' = Nothing
    /\ UNCHANGED counterVars

\* A client calls the snapshot route that reads by time window.
SnapshotQuery ==
    /\ lastQuery = Nothing
    /\ \E raw \in RawParams :
          lastQuery' = Some([op |-> "GET snapshot", opts |-> raw,
                             n |-> SnapshotGET(raw).status,
                             res |-> SnapshotGET(raw)])
    /\ UNCHANGED <<now, isProduction, storeVars, writerVars, clientVars,
                   counterVars>>

\* A client calls the combined route.
CombinedQuery ==
    /\ lastQuery = Nothing
    /\ \E raw \in RawParams, bucketNow \in LaterReads(now) :
          lastQuery' = Some([op |-> "GET /api/traffic/combined", opts |-> raw,
                             n |-> CombinedGET(raw, bucketNow).status,
                             res |-> CombinedGET(raw, bucketNow)])
    /\ UNCHANGED <<now, isProduction, storeVars, writerVars, clientVars,
                   counterVars>>

(* --------------------------- traffic chart ---------------------------- *)
\* The slots of the chart, scaled: 6 slots a minute, 10 seconds each.
SLOTS_PER_MINUTE == 2
SLOT_INTERVAL == 2

\* A log as the snapshot response carries it to the chart.
ChartLog(id) ==
    [id |-> id, timestamp |-> records[id].timestamp,
     endpoint |-> records[id].endpoint, method |-> records[id].method,
     statusCode |-> records[id].statusCode]

\* `${log.timestamp}-${log.endpoint}-${log.method}-${log.statusCode}`
LogKey(log) == <<log.timestamp, log.endpoint, log.method, log.statusCode>>

RECURSIVE UniqueLogs(_, _)
\* the forEach of processedData: a log is pushed when its key has not been
\* seen, and its key is then seen
UniqueLogs(data, seenKeys) ==
    IF data = <<>> THEN <<>>
    ELSE IF LogKey(Head(data)) \in seenKeys
         THEN UniqueLogs(Tail(data), seenKeys)
         ELSE <<Head(data)>>
                 \o UniqueLogs(Tail(data), seenKeys \cup {LogKey(Head(data))})

\* processedData of TrafficChart
processedData(data) == UniqueLogs(data, {})

\* chartData of TrafficChart, its datasets[0].data: timeWindow * 6 slots
\* from currentTime - timeWindow minutes on; a log inside the window counts
\* in the slot whose start it is at or after and whose successor's start it
\* is before, the last slot reaching to currentTime inclusive.
chartData(processed, currentTime, timeWindow) ==
    LET numSlots  == timeWindow * SLOTS_PER_MINUTE
        endTime   == currentTime
        startTime == endTime - timeWindow * MS_PER_MINUTE
        bucketTimestamps == [i \in 1..numSlots |->
                                startTime + (i - 1) * SLOT_INTERVAL]
        inSlot(i, log) ==
            /\ ~(log.timestamp < startTime \/ log.timestamp > endTime)
            /\ IF i < numSlots
               THEN /\ log.timestamp >= bucketTimestamps[i]
                    /\ log.timestamp < bucketTimestamps[i + 1]
               ELSE /\ log.timestamp >= bucketTimestamps[numSlots]
                    /\ log.timestamp <= endTime
    IN  [i \in 1..numSlots |->
            Cardinality({j \in 1..Len(processed) : inSlot(i, processed[j])})]

\* totalRequests of TrafficChart
totalRequests(processed, currentTime, timeWindow) ==
    LET endTime   == currentTime
        startTime == endTime - timeWindow * MS_PER_MINUTE
        inWindow(log) == log.timestamp >= startTime /\ log.timestamp <= endTime
    IN  Len(SelectSeq(processed, inWindow))

\* The chart of an endpoint is rendered from the combined snapshot the
\* dashboard fetched for its time window; currentTime is the clock as the
\* one-second interval of the chart last read it.
RenderChart ==
    /\ lastQuery = Nothing
    /\ \E raw \in {Nothing, Some("2")}, endpoint \in Endpoints,
          currentTime \in {now - 1, now} :
          LET timeWindow == ParseOrDefault(raw, DEFAULT_TIME_WINDOW).v
              snapshot   == CombinedGET(raw, now)
              ids        == IF endpoint = "/api/auth/login"
                            THEN snapshot.login ELSE snapshot.checkout
              data       == [k \in 1..Len(ids) |-> ChartLog(ids[k])]
              processed  == processedData(data)
          IN  lastQuery' =
                Some([op |-> "TrafficChart",
                      opts |-> [endpoint |-> endpoint,
                                timeWindow |-> timeWindow,
                                currentTime |-> currentTime],
                      n |-> totalRequests(processed, currentTime, timeWindow),
                      res |-> [data |-> data,
                               buckets |-> chartData(processed, currentTime,
                                                     timeWindow)]])
    /\ UNCHANGED <<now, isProduction, storeVars, writerVars, clientVars,
                   counterVars>>

(* ---------------------- getLatestLogTimestamp ------------------------- *)
\* The random part of an id is Math.random().toString(36).substring(2, 10):
\* digits and lower-case letters, no '-'.  The two suffixes of the model
\* stand for a text that starts with a letter and a text that starts with
\* a digit.
SuffixText(sfx) == IF sfx = 0 THEN "k3x9w2ab" ELSE "7fq04zzc"

\* parseInt of such a text: the decimal digits it starts with, NaN when it
\* starts with a letter
parseIntSuffix(text) == IF text = "7fq04zzc" THEN Num(7) ELSE NaN

\* newestId.split('-') of the id `traffic:log:${timestampMs}-${random}`:
\* the only '-' of the text stands between the milliseconds and the random
\* part, so parts[0] is the prefix with the milliseconds and parts[1] the
\* random part.
SplitAtDash(id) ==
    <<[prefix |-> "traffic:log:", ms |-> id[1]], SuffixText(id[2])>>

\* redis.zrange(key, -1, -1): the member of the highest rank, if any
ZRangeLast(S) ==
    LET all == ZRangeAll(S)
    IN  IF all = <<>> THEN <<>> ELSE <<all[Len(all)].id>>

\* getLatestLogTimestamp(); storeDown when redis.zrange rejects.  (JavaScript
\* indexes parts from 0: parts[1] is the second part.)
getLatestLogTimestamp(storeDown) ==
    IF storeDown THEN now
    ELSE LET newestIds == ZRangeLast(index)
         IN  IF newestIds = <<>> THEN now
             ELSE LET parts == SplitAtDash(newestIds[1])
                  IN  IF Len(parts) >= 2 /\ ~parseIntSuffix(parts[2]).isNaN
                      THEN parseIntSuffix(parts[2]).v
                      ELSE now

\* A caller asks for the latest log timestamp.
LatestQuery ==
    /\ lastQuery = Nothing
    /\ \E storeDown \in BOOLEAN :
          lastQuery' = Some([op |-> "getLatestLogTimestamp",
                             opts |-> storeDown,
                             n |-> getLatestLogTimestamp(storeDown),
                             res |-> ZRangeLast(index)])
    /\ UNCHANGED <<now, isProduction, storeVars, writerVars, clientVars,
                   counterVars>>

(* --------------- the dashboard component with two streams ------------- *)
Streams == {"chart", "logs"}

\* the options of the two selects (5 / 10 / 15 minutes and 10 / 30 / 60
\* seconds, scaled)
WindowOptions == {1, 2}
IntervalOptions == {1, 2}

\* The component before it is mounted.  data holds chartData and
\* recentLogs, loading chartLoading and logsLoading, error chartError and
\* logsError, intervalRef chartIntervalRef and logsIntervalRef; timers are
\* the intervals that have been set and not cleared, each with the window
\* and interval its callback was created with; requests are the fetches
\* that have not been answered yet, fetched the last one that was.
InitialDashboard ==
    [mounted |-> FALSE, unmounted |-> FALSE,
     chartTimeWindowMinutes |-> DEFAULT_WINDOW_MINUTES,
     chartIntervalSeconds |-> DEFAULT_INTERVAL_SECONDS,
     data |-> [s \in Streams |-> <<>>],
     loading |-> [s \in Streams |-> TRUE],
     error |-> [s \in Streams |-> Nothing],
     intervalRef |-> [s \in Streams |-> Nothing],
     timers |-> {}, ntimers |-> 0,
     requests |-> {}, nfetch |-> 0, fetched |-> Nothing]

\* fetchChartData() / fetchRecentLogs() up to its await fetch(url)
StartFetch(d, stream, windowMinutes, intervalSeconds) ==
    [d EXCEPT !.requests = @ \cup {[stream |-> stream, n |-> d.nfetch + 1,
                                    windowMinutes |-> windowMinutes,
                                    intervalSeconds |-> intervalSeconds]},
              !.nfetch = @ + 1]

\* clearInterval(ref.current), where ref.current is set
ClearInterval(d, stream) ==
    [d EXCEPT !.timers = {t \in @ : Some(t.id) # d.intervalRef[stream]}]

\* a cleanup that leaves the interval running
NoCleanup(d, stream) == d

\* the function an effect returns: if (ref.current) clearInterval(ref.current)
Cleanup(d, stream) == ClearInterval(d, stream)

\* The body of the effect of a stream: loading is set, one fetch is sent,
\* the interval of ref.current is cleared and a new one is set.
Effect(d, stream) ==
    LET fetching == StartFetch([d EXCEPT !.loading[stream] = TRUE], stream,
                               d.chartTimeWindowMinutes, d.chartIntervalSeconds)
        cleared == ClearInterval(fetching, stream)
        t == d.ntimers + 1
    IN  [cleared EXCEPT
            !.timers = @ \cup {[stream |-> stream, id |-> t,
                                windowMinutes |-> d.chartTimeWindowMinutes,
                                intervalSeconds |-> d.chartIntervalSeconds]},
            !.intervalRef[stream] = Some(t),
            !.ntimers = t]

\* A handler calls logTraffic while the dashboard is watched.
WatchedRequest(w) ==
    /\ pc[w] = "idle"
    /\ ncalls < MaxWatchedCalls
    /\ \E label \in Endpoints : LogTrafficBegin(w, label, FALSE, NoHeaders)
    /\ UNCHANGED <<req, calls>>

\* The component mounts: both effects run.
MountDashboard ==
    /\ ~dash.mounted /\ ~dash.unmounted
    /\ dash' = Effect(Effect([dash EXCEPT !.mounted = TRUE], "chart"), "logs")
    /\ UNCHANGED <<now, isProduction, storeVars, writerVars, cursor, delivered,
                   npolls, lastResponse, view, counterVars>>
    /\ lastQuery' = Nothing

\* The user picks another chart window or interval: fetchChartData is a new
\* function, so the chart effect is cleaned up and runs again.
ChangeChartOptions ==
    /\ dash.mounted
    /\ \A s \in Streams : ~dash.loading[s]
    /\ dash.nfetch < MaxFetches
    /\ \E w \in WindowOptions, i \in IntervalOptions :
          /\ (w = dash.chartTimeWindowMinutes) # (i = dash.chartIntervalSeconds)
          /\ dash' = Effect(Cleanup([dash EXCEPT !.chartTimeWindowMinutes = w,
                                                 !.chartIntervalSeconds = i],
                                    "chart"), "chart")
    /\ UNCHANGED <<now, isProduction, storeVars, writerVars, cursor, delivered,
                   npolls, lastResponse, view, counterVars>>
    /\ lastQuery' = Nothing

\* An interval fires: its callback sends a fetch.
DashboardTimerFires ==
    /\ dash.nfetch < MaxFetches
    /\ \E t \in dash.timers :
          dash' = StartFetch(dash, t.stream, t.windowMinutes, t.intervalSeconds)
    /\ UNCHANGED <<now, isProduction, storeVars, writerVars, cursor, delivered,
                   npolls, lastResponse, view, counterVars>>
    /\ lastQuery' = Nothing

\* logs.sort((a, b) => time(b) - time(a)), a stable sort
RECURSIVE SortLogs(_)
SortLogs(logs) ==
    IF Len(logs) <= 1 THEN logs
    ELSE LET rest == SortLogs(Tail(logs))
             first == Head(logs)
             newer(l) == l.timestamp > first.timestamp
             notNewer(l) == ~newer(l)
         IN  SelectSeq(rest, newer) \o <<first>> \o SelectSeq(rest, notNewer)

\* the body of the 200 response of GET /api/traffic?limit=..., as the logs
\* the table shows
RecentLogsBody ==
    LET shown(rec) == [endpoint |-> rec.endpoint, timestamp |-> rec.timestamp]
    IN  IF isProduction
        THEN LET ids == getTrafficLogs(NoOptions)
             IN  [k \in 1..Len(ids) |-> shown(records[ids[k]])]
        ELSE [k \in 1..Len(file) |-> shown(file[k])]

\* the data a stream holds after an OK response to the fetch rq
Fetched(rq) ==
    IF rq.stream = "chart"
    THEN DashboardGET(Some(rq.windowMinutes), Some(rq.intervalSeconds)).buckets
    ELSE SortLogs(RecentLogsBody)

\* finally { setChartLoading(false) } / finally { setLogsLoading(false) }
AfterDashboardFetch(d, rq, ok) ==
    [d EXCEPT !.loading[rq.stream] = FALSE,
              !.requests = @ \ {rq},
              !.fetched = Some([stream |-> rq.stream, n |-> rq.n, ok |-> ok])]

\* A fetch is answered with 200: the data of its stream is replaced, the
\* error of its stream is cleared.
FetchSucceeds ==
    /\ \E rq \in dash.requests :
          dash' = AfterDashboardFetch(
                     [dash EXCEPT !.data[rq.stream] = Fetched(rq),
                                  !.error[rq.stream] = Nothing], rq, TRUE)
    /\ UNCHANGED <<now, isProduction, storeVars, writerVars, cursor, delivered,
                   npolls, lastResponse, view, counterVars>>
    /\ lastQuery' = Nothing

\* a catch block that sets the error of both streams
CatchSetsBothErrors(d, stream, message) ==
    [d EXCEPT !.error = [s \in Streams |-> Some(message)]]

\* catch (err) { setChartError(...) } / catch (err) { setLogsError(...) }
CatchStreamError(d, stream, message) ==
    [d EXCEPT !.error[stream] = Some(message)]

\* A fetch fails (network error, or a status that is not OK).
FetchFails ==
    /\ \E rq \in dash.requests :
          dash' = AfterDashboardFetch(
                     CatchStreamError(dash, rq.stream, "API error"), rq, FALSE)
    /\ UNCHANGED <<now, isProduction, storeVars, writerVars, cursor, delivered,
                   npolls, lastResponse, view, counterVars>>
    /\ lastQuery' = Nothing

\* The component unmounts: the cleanups of both effects run.
UnmountDashboard ==
    /\ dash.mounted
    /\ dash' = [Cleanup(Cleanup(dash, "chart"), "logs")
                   EXCEPT !.mounted = FALSE, !.unmounted = TRUE]
    /\ UNCHANGED <<now, isProduction, storeVars, writerVars, cursor, delivered,
                   npolls, lastResponse, view, counterVars>>
    /\ lastQuery' = Nothing

(* --------------------------- specification ---------------------------- *)
Init ==
    /\ now = 1
    /\ isProduction \in BOOLEAN
    /\ records = <<>>
    /\ index = {}
    /\ file = <<>>
    /\ pc = [w \in Writers |-> "idle"]
    /\ req = [w \in Writers |-> Nothing]
    /\ cur = [w \in Writers |-> Nothing]
    /\ calls = [w \in Writers |-> <<>>]
    /\ failed = [w \in Writers |-> None]
    /\ appended = <<>>
    /\ ncalls = 0
    /\ cursor = Nothing
    /\ delivered = <<>>
    /\ npolls = 0
    /\ lastResponse = Nothing
    /\ view = InitialView
    /\ dash = InitialDashboard
    /\ lastQuery = Nothing
    /\ nowSeconds = 3
    /\ counters = <<>>
    /\ tracked = <<>>

Next ==
    \/ \E w \in SeqWriters : Request(w)
    \/ \E w \in SeqWriters : RedisSet(w)
    \/ \E w \in SeqWriters : RedisZadd(w)
    \/ \E w \in SeqWriters : RedisZremrangebyrank(w)
    \/ \E w \in SeqWriters : Respond(w)
    \/ EchoPoll
    \/ Tick

Spec == Init /\ [][Next]_vars

\* Requests served one at a time, with detail queries between the steps.
NextQuery ==
    \/ \E w \in SeqWriters : ClassifiedRequest(w)
    \/ \E w \in SeqWriters : RedisSet(w)
    \/ \E w \in SeqWriters : RedisZadd(w)
    \/ \E w \in SeqWriters : RedisZremrangebyrank(w)
    \/ \E w \in SeqWriters : Respond(w)
    \/ DetailQuery
    \/ FullQuery
    \/ Tick

SpecQuery == Init /\ [][NextQuery]_vars

\* Requests served one at a time; records expire or are overwritten, and
\* queries read what is left.
NextRead ==
    \/ \E w \in SeqWriters : ClassifiedRequest(w)
    \/ \E w \in SeqWriters : RedisSet(w)
    \/ \E w \in SeqWriters : RedisZadd(w)
    \/ \E w \in SeqWriters : RedisZremrangebyrank(w)
    \/ \E w \in SeqWriters : Respond(w)
    \/ RecordExpires
    \/ RecordCorrupted
    \/ ReadQuery
    \/ FullQueryStoreDown
    \/ Tick

SpecRead == Init /\ [][NextRead]_vars

\* Requests served one at a time, and the query endpoints called with any
\* parameter text.
NextParams ==
    \/ \E w \in SeqWriters : ClassifiedRequest(w)
    \/ \E w \in SeqWriters : RedisSet(w)
    \/ \E w \in SeqWriters : RedisZadd(w)
    \/ \E w \in SeqWriters : RedisZremrangebyrank(w)
    \/ \E w \in SeqWriters : Respond(w)
    \/ IncrementalRequest
    \/ DashboardRequest
    \/ TrafficRequest
    \/ Tick

SpecParams == Init /\ [][NextParams]_vars

\* Requests served concurrently: the logTraffic calls of the handlers
\* interleave at their awaits.
NextConcurrent ==
    \/ \E w \in Writers : Request(w)
    \/ \E w \in Writers : RedisSet(w)
    \/ \E w \in Writers : RedisZadd(w)
    \/ \E w \in Writers : RedisZremrangebyrank(w)
    \/ \E w \in Writers : Respond(w)
    \/ Tick

SpecConcurrent == Init /\ [][NextConcurrent]_vars

\* Requests served concurrently by the variant of logTraffic that counts
\* the index and trims what is above the cap.
NextCountTrim ==
    \/ \E w \in Writers : CountTrimRequest(w)
    \/ \E w \in Writers : CountTrimSet(w)
    \/ \E w \in Writers : CountTrimZadd(w)
    \/ \E w \in Writers : CountTrimZcard(w)
    \/ \E w \in Writers : CountTrimZrange(w)
    \/ \E w \in Writers : CountTrimDel(w)
    \/ \E w \in Writers : CountTrimZrem(w)
    \/ \E w \in Writers : Respond(w)
    \/ Tick

SpecCountTrim == Init /\ [][NextCountTrim]_vars

\* Requests served one at a time, and the incremental dashboard component
\* polling for them.
NextPolling ==
    \/ \E w \in SeqWriters : Request(w)
    \/ \E w \in SeqWriters : RedisSet(w)
    \/ \E w \in SeqWriters : RedisZadd(w)
    \/ \E w \in SeqWriters : RedisZremrangebyrank(w)
    \/ \E w \in SeqWriters : Respond(w)
    \/ Tick
    \/ MountView
    \/ SetupPolling
    \/ TimerFires
    \/ PollSucceeds
    \/ PollFails
    \/ UnmountView

SpecPolling == Init /\ [][NextPolling]_vars

\* The incremental dashboard component with fetches of one stream that
\* overlap: the interval fires while earlier fetches are unanswered, and
\* responses arrive in any order.
NextOverlap ==
    \/ \E w \in SeqWriters : WatchedRequest(w)
    \/ \E w \in SeqWriters : RedisSet(w)
    \/ \E w \in SeqWriters : RedisZadd(w)
    \/ \E w \in SeqWriters : RedisZremrangebyrank(w)
    \/ \E w \in SeqWriters : Respond(w)
    \/ Tick
    \/ MountView
    \/ SetupPolling
    \/ TimerFires
    \/ ServerResponds
    \/ ResponseArrives
    \/ PollFails
    \/ UnmountView

SpecOverlap == Init /\ [][NextOverlap]_vars

\* Requests served one at a time, and the dashboard component with its two
\* streams.
NextDashboard ==
    \/ \E w \in SeqWriters : WatchedRequest(w)
    \/ \E w \in SeqWriters : RedisSet(w)
    \/ \E w \in SeqWriters : RedisZadd(w)
    \/ \E w \in SeqWriters : RedisZremrangebyrank(w)
    \/ \E w \in SeqWriters : Respond(w)
    \/ Tick
    \/ MountDashboard
    \/ ChangeChartOptions
    \/ DashboardTimerFires
    \/ FetchSucceeds
    \/ FetchFails
    \/ UnmountDashboard

SpecDashboard == Init /\ [][NextDashboard]_vars

\* The login and checkout handlers serving requests one at a time.
NextHandlers ==
    \/ \E w \in SeqWriters : StartRequest(w)
    \/ \E w \in SeqWriters : HandlerLogs(w)
    \/ \E w \in SeqWriters : RedisSet(w)
    \/ \E w \in SeqWriters : RedisZadd(w)
    \/ \E w \in SeqWriters : RedisZremrangebyrank(w)
    \/ \E w \in SeqWriters : HandlerResumes(w)
    \/ \E w \in SeqWriters : HandlerReturns(w)
    \/ \E w \in SeqWriters : Finish(w)
    \/ Tick

SpecHandlers == Init /\ [][NextHandlers]_vars

\* Requests served one at a time over a store whose calls may fail.
NextFault ==
    \/ \E w \in SeqWriters : Request(w)
    \/ \E w \in SeqWriters : RedisSet(w)
    \/ \E w \in SeqWriters : RedisZadd(w)
    \/ \E w \in SeqWriters : RedisZremrangebyrank(w)
    \/ \E w \in SeqWriters : StepFails(w)
    \/ \E w \in SeqWriters : FileStepFails(w)
    \/ \E w \in SeqWriters : Respond(w)
    \/ Tick

SpecFault == Init /\ [][NextFault]_vars

\* Requests with any combination of address headers, one at a time.
NextIp ==
    \/ \E w \in SeqWriters : ProxiedRequest(w)
    \/ \E w \in SeqWriters : RedisSet(w)
    \/ \E w \in SeqWriters : RedisZadd(w)
    \/ \E w \in SeqWriters : RedisZremrangebyrank(w)
    \/ \E w \in SeqWriters : Respond(w)
    \/ Tick

SpecIp == Init /\ [][NextIp]_vars

\* Tracked events counted per second, and the dashboard reading them.
NextAgg ==
    \/ RecordTracked
    \/ TickSecond
    \/ DashboardQuery

SpecAgg == Init /\ [][NextAgg]_vars

\* Requests served one at a time, and the snapshot routes called with any
\* parameter text.
NextCombined ==
    \/ \E w \in SeqWriters : Request(w)
    \/ \E w \in SeqWriters : RedisSet(w)
    \/ \E w \in SeqWriters : RedisZadd(w)
    \/ \E w \in SeqWriters : RedisZremrangebyrank(w)
    \/ \E w \in SeqWriters : Respond(w)
    \/ SnapshotQuery
    \/ CombinedQuery
    \/ LateTick

SpecCombined == Init /\ [][NextCombined]_vars

\* Requests served one at a time, and the chart of an endpoint rendered from
\* the snapshot of the moment.
NextChart ==
    \/ \E w \in SeqWriters : Request(w)
    \/ \E w \in SeqWriters : RedisSet(w)
    \/ \E w \in SeqWriters : RedisZadd(w)
    \/ \E w \in SeqWriters : RedisZremrangebyrank(w)
    \/ \E w \in SeqWriters : Respond(w)
    \/ RenderChart
    \/ LateTick

SpecChart == Init /\ [][NextChart]_vars

\* Requests served one at a time, and the latest log timestamp asked for.
NextLatest ==
    \/ \E w \in SeqWriters : Request(w)
    \/ \E w \in SeqWriters : RedisSet(w)
    \/ \E w \in SeqWriters : RedisZadd(w)
    \/ \E w \in SeqWriters : RedisZremrangebyrank(w)
    \/ \E w \in SeqWriters : Respond(w)
    \/ LatestQuery
    \/ Tick

SpecLatest == Init /\ [][NextLatest]_vars

(* ------------------------------ claims -------------------------------- *)
AllIdle == \A w \in Writers : pc[w] = "idle"

\* ids that were put in the index and are no longer in it
Evicted == Range(appended) \ IndexIds

\* C1: once more than MAX_LOGS appends have completed, the detail store
\* holds at most MAX_LOGS records, and what it retains is exactly the
\* MAX_LOGS most recent events by timestamp.
C1_CapInvariant ==
    (AllIdle /\ Len(appended) > MAX_LOGS) =>
        /\ Cardinality(DOMAIN records) <= MAX_LOGS
        /\ Cardinality(index) = MAX_LOGS
        /\ \A x \in Evicted, y \in IndexIds : TimestampOf(x) <= TimestampOf(y)

\* The part of C1 about which events are retained, on its own: no evicted
\* event has a later timestamp than a retained one.
C1_RetainedAreMostRecent ==
    (AllIdle /\ Len(appended) > MAX_LOGS) =>
        \A x \in Evicted, y \in IndexIds : TimestampOf(x) <= TimestampOf(y)

\* The polling client has polled since the last append completed.
CaughtUp ==
    /\ AllIdle
    /\ lastResponse # Nothing
    /\ The(lastResponse).at = Len(appended)

\* C2: when the client that echoes latestTimestamp as its next 'since' has
\* caught up, the logs it received are the appended events, each exactly
\* once, in insertion order.
C2_ExactlyOnceInOrder == CaughtUp => delivered = appended

\* The parts of C2 on their own: nothing is missed / nothing comes twice.
C2_NothingMissed == CaughtUp => Range(appended) \subseteq Range(delivered)

C2_NothingTwice ==
    \A i, j \in 1..Len(delivered) : delivered[i] = delivered[j] => i = j

\* ids a query can return: in the index, with their record present
StoredEvents == {id \in IndexIds : id \in DOMAIN records}

\* The store holds no event newer than the cursor c (no event at all, for
\* a caller that has no cursor yet).
NoEventNewerThan(c) ==
    IF c = Nothing THEN StoredEvents = {}
    ELSE \A id \in StoredEvents : TimestampOf(id) <= The(c)

\* C4: a poll made while the store holds no event newer than the caller's
\* cursor returns no logs, and returns as latestTimestamp the caller's
\* since (the server's current time when the caller sent none); so two
\* such polls in a row, the second with the value of the first, both come
\* back empty with the same latestTimestamp.
C4_IdempotentEmptyPoll ==
    [][(npolls' = npolls + 1 /\ NoEventNewerThan(cursor)) =>
          /\ The(lastResponse').logs = <<>>
          /\ The(lastResponse').latestTimestamp =
                (IF cursor = Nothing THEN now ELSE The(cursor))]_vars

\* C4 with 'newer' read as 'of greater index score'.
NoScoreNewerThan(c) ==
    IF c = Nothing THEN StoredEvents = {}
    ELSE \A e \in index : e.id \in StoredEvents => e.score <= The(c)

C4_EmptyPollByScore ==
    [][(npolls' = npolls + 1 /\ NoScoreNewerThan(cursor)) =>
          /\ The(lastResponse').logs = <<>>
          /\ The(lastResponse').latestTimestamp =
                (IF cursor = Nothing THEN now ELSE The(cursor))]_vars

(* ------------------------ claims on detail queries --------------------- *)
IsDetailQuery == lastQuery # Nothing /\ The(lastQuery).op = "getTrafficLogs"
IsFullQuery == lastQuery # Nothing /\ The(lastQuery).op = "GET /api/traffic"

\* the stored events that satisfy the endpoint / method / isBot filters of o
Matching(o) == {id \in StoredEvents : MatchesFilters(records[id], o)}

\* C3: getTrafficLogs with since = s returns only events whose timestamp is
\* greater than s, and it does return the events at s + 1; without since
\* (and without limit) it returns every retained event that matches.
C3_SinceIsExclusive ==
    IsDetailQuery =>
        LET o   == The(lastQuery).opts
            res == The(lastQuery).res
        IN  /\ o.since # Nothing =>
                 \A id \in Range(res) : TimestampOf(id) > The(o.since)
            /\ (o.since # Nothing /\ o.limit = Nothing) =>
                 \A id \in Matching(o) :
                    TimestampOf(id) = The(o.since) + 1 => id \in Range(res)
            /\ (o.since = Nothing /\ o.limit = Nothing) =>
                 Range(res) = Matching(o)

\* C5: getTrafficLogs with filters and limit L returns exactly the
\* min(L, m) newest of the m retained events that satisfy the filters,
\* newest first.
C5_NewestMatchingUpToLimit ==
    (IsDetailQuery /\ The(lastQuery).opts.since = Nothing
                   /\ The(lastQuery).opts.limit # Nothing) =>
        LET o   == The(lastQuery).opts
            res == The(lastQuery).res
            M   == Matching(o)
        IN  /\ Len(res) = Min(The(o.limit), Cardinality(M))
            /\ Range(res) \subseteq M
            /\ \A x \in M \ Range(res), y \in Range(res) :
                  TimestampOf(x) <= TimestampOf(y)
            /\ \A i, j \in 1..Len(res) :
                  i < j => TimestampOf(res[i]) >= TimestampOf(res[j])

\* C6: a detail query never returns more events than its limit: at most
\* DEFAULT_LIMIT when getTrafficLogs is called without limit, at most n for
\* GET /api/traffic?limit=n.
C6_NeverMoreThanLimit ==
    /\ (IsDetailQuery /\ The(lastQuery).opts.limit = Nothing) =>
          The(lastQuery).n <= DEFAULT_LIMIT
    /\ (IsFullQuery /\ The(lastQuery).opts.limit # Nothing) =>
          The(lastQuery).n <= The(The(lastQuery).opts.limit)

(* --------------------- claims on the dashboard aggregate --------------- *)
IsDashboard200 ==
    /\ lastQuery # Nothing
    /\ The(lastQuery).op = "GET /api/dashboard-data"
    /\ The(lastQuery).n = 200

\* the window start of the last dashboard query, aligned down: the largest
\* multiple of intervalSeconds not after now - windowMinutes * 60
WindowStart ==
    LET o == The(lastQuery).opts
        i == The(o.intervalSeconds)
        start == nowSeconds - The(o.windowMinutes) * SECONDS_PER_MINUTE
    IN  CHOOSE a \in (start - i)..start : a % i = 0 /\ a + i > start

\* number of events of endpoint e recorded individually in [from, to)
TrackedIn(e, from, to) ==
    Cardinality({k \in 1..Len(tracked) :
        /\ tracked[k].endpoint = e
        /\ from <= tracked[k].second /\ tracked[k].second < to})

RECURSIVE SumBuckets(_, _)
SumBuckets(buckets, e) ==
    IF buckets = <<>> THEN 0
    ELSE Head(buckets).counts[e] + SumBuckets(Tail(buckets), e)

\* the window of the last dashboard query lies within the counters' retention
WithinRetention == nowSeconds - WindowStart < COUNTER_TTL

WrittenEntries == {records[id] : id \in DOMAIN records} \cup Range(file)

\* the first present value in the order cf-connecting-ip, x-real-ip, first
\* entry of x-forwarded-for, else "unknown"
FirstPresent(h) ==
    IF TruthyHeader(h.cf) THEN The(h.cf)
    ELSE IF TruthyHeader(h.real) THEN The(h.real)
    ELSE IF h.xff # Nothing THEN Head(The(h.xff))
    ELSE "unknown"

\* C8: every entry written carries, in both ip and realIp, the first
\* present value in the order cf-connecting-ip, x-real-ip, first entry of
\* x-forwarded-for, else "unknown".
C8_ClientIpPrecedence ==
    \A e \in WrittenEntries :
        /\ e.ip = FirstPresent(e.headers)
        /\ e.realIp = e.ip

\* C8, production backend only
C8_RedisBackendPrecedence ==
    \A id \in DOMAIN records :
        /\ records[id].ip = FirstPresent(records[id].headers)
        /\ records[id].realIp = records[id].ip

(* ------------------------ claims on failing store calls ---------------- *)
\* the call of w has returned after its eviction step failed
EvictionFailed(w) == pc[w] = "ret" /\ failed[w] = "zrem"

\* C9: logTraffic never throws to its caller, whichever step fails (record
\* write, index add, trim, or the file access of the file backend); and
\* when only the trim fails, the event just appended is in the store and a
\* query returns it.
C9_NeverThrows ==
    \A w \in Writers :
        /\ pc[w] # "threw"
        /\ EvictionFailed(w) =>
              LET id == The(cur[w]).id
              IN  /\ id \in DOMAIN records
                  /\ id \in IndexIds
                  /\ \E i \in 1..Len(getTrafficLogs(NoOptions)) :
                        getTrafficLogs(NoOptions)[i] = id

\* the trim failed when the index was over its cap
C9_Witness ==
    \E w \in Writers :
        /\ EvictionFailed(w)
        /\ Cardinality(index) > MAX_LOGS

\* a call of the file backend failed and returned
C9_FileWitness ==
    \E w \in Writers : pc[w] = "ret" /\ failed[w] = "file"

(* ------------------------ claims on the handlers ----------------------- *)
\* the status the handler is to answer a request with: 500 for an
\* exception, 400 for missing fields, 401 for wrong credentials, else 200
ExpectedStatus(r) ==
    IF ~r.json THEN 500
    ELSE IF ~r.complete THEN 400
    ELSE IF ~r.valid THEN (IF r.route = "login" THEN 401 ELSE 500)
    ELSE 200

\* C10: when a login or checkout handler has returned, it has called
\* logTraffic exactly once for the request, with the endpoint's label and
\* the status of the response, which is 400 for missing fields, 401 for
\* wrong credentials, 200 for success and 500 for an exception.
C10_LoggedOnceWithResponseStatus ==
    \A w \in Writers :
        pc[w] = "done" =>
            LET r      == The(req[w]).request
                status == The(The(req[w]).response)
            IN  /\ Len(calls[w]) = 1
                /\ calls[w][1].label = Label(r.route)
                /\ calls[w][1].status = status
                /\ status = ExpectedStatus(r)

\* C10, the call count alone
C10_LoggedOnce ==
    \A w \in Writers : pc[w] = "done" => Len(calls[w]) = 1

\* C10, the status alone: the last status logged is the response's
C10_LastLoggedIsResponse ==
    \A w \in Writers :
        pc[w] = "done" =>
            /\ Len(calls[w]) >= 1
            /\ calls[w][Len(calls[w])].status = The(The(req[w]).response)
            /\ \A i \in 1..Len(calls[w]) :
                  calls[w][i].label = Label(The(req[w]).request.route)

(* ------------------------ claims on decayed records -------------------- *)
\* the ids in the index whose record is gone, or is not an object
BadIds == {id \in IndexIds : ~Usable(id)}

\* the ids in the index whose record is usable and matches the filters of o
UsableMatching(o) ==
    {id \in IndexIds : Usable(id) /\ MatchesFilters(records[id], o)}

C11_ExpiredWitness ==
    /\ IsDetailQuery
    /\ The(lastQuery).n > 0
    /\ \E id \in BadIds : id \notin DOMAIN records

(* ------------------------ claims on failing reads ---------------------- *)
IsFullQueryStoreDown ==
    lastQuery # Nothing /\ The(lastQuery).op = "GET /api/traffic, store down"

\* C12: when the backing store cannot be read during a detail query (the
\* store call throws, or the log file cannot be read or parsed), the query
\* endpoint answers with a best-effort result, never with an error status.
C12_ReadFailureIsNotAnError ==
    IsFullQueryStoreDown => The(lastQuery).status = 200

\* C12, production backend only
C12_RedisReadFailureIsNotAnError ==
    (IsFullQueryStoreDown /\ isProduction) =>
        The(lastQuery).status = 200 /\ The(lastQuery).n = 0

(* ------------------------ claims on query parameters ------------------- *)
\* the parameter text is there and is not a number: it does not start with
\* an integer
NonNumeric(raw) == raw = Some("abc")

\* the parameter text is a number that is not positive
NotPositive(raw) == raw \in {Some("0"), Some("-1")}

\* the parameter text has characters after its number
TrailingText(raw) == raw = Some("2abc")

\* the last request carried a parameter that is non-numeric, or <= 0 where
\* a positive value is required (timeWindow, windowMinutes, intervalSeconds)
InvalidParameter ==
    LET q == The(lastQuery)
    IN  \/ \E raw \in q.positive \cup q.other : NonNumeric(raw)
        \/ \E raw \in q.positive : NotPositive(raw)

\* C13: every query endpoint answers 400 when a numeric parameter is
\* non-numeric, or is <= 0 where a positive value is required, and reads no
\* store in that case.
C13_InvalidParameterIs400 ==
    (lastQuery # Nothing /\ InvalidParameter) =>
        The(lastQuery).status = 400 /\ ~The(lastQuery).read

\* C13 for the incremental and the dashboard endpoint alone
C13_ValidatingEndpoints ==
    (/\ lastQuery # Nothing
     /\ The(lastQuery).op # "GET /api/traffic"
     /\ InvalidParameter) =>
        The(lastQuery).status = 400 /\ ~The(lastQuery).read

\* C13 with text after the number counted as non-numeric
C13_TrailingTextIs400 ==
    (/\ lastQuery # Nothing
     /\ The(lastQuery).op # "GET /api/traffic"
     /\ \E raw \in The(lastQuery).positive \cup The(lastQuery).other :
           TrailingText(raw)) =>
        The(lastQuery).status = 400

(* ------------------------ claims on the log file ----------------------- *)
\* a logTraffic call of the file backend has run without a failure
FileAppend ==
    /\ ~isProduction
    /\ ncalls' = ncalls + 1
    /\ \A w \in Writers : failed'[w] # "file"

InFlight == {w \in Writers : pc[w] \in {"set", "zadd", "zrem"}}

C15_OvershootByPendingTrims ==
    Cardinality(index) <=
        MAX_LOGS + Cardinality({w \in Writers : pc[w] = "zrem"})

C15_SettledWitness ==
    /\ InFlight = {}
    /\ Len(appended) > MAX_LOGS
    /\ Cardinality(index) = MAX_LOGS


(* ------------------------------ C16 ---------------------------------- *)
\* a step in which a fetch of the component is answered with 200
SuccessfulPoll ==
    /\ view'.fetched # view.fetched
    /\ The(view'.fetched).ok

\* the ids of the logs a successful poll step has received
ReceivedLogs == SubSeq(delivered', Len(delivered) + 1, Len(delivered'))

EndpointLogs(logs, endpoint) ==
    LET has(log) == log.endpoint = endpoint IN SelectSeq(logs, has)

\* C16: after any sequence of successful polls each of loginLogs,
\* checkoutLogs and recentLogs holds at most MAX_LOGS_IN_STATE logs, and a
\* successful poll puts the logs of its response ahead of the logs the
\* array held, dropping the oldest ones (the tail) on overflow.
C16_BuffersBoundedNewestFirst ==
    /\ [](/\ Len(view.loginLogs) <= MAX_LOGS_IN_STATE
          /\ Len(view.checkoutLogs) <= MAX_LOGS_IN_STATE
          /\ Len(view.recentLogs) <= MAX_LOGS_IN_STATE)
    /\ [][SuccessfulPoll =>
            LET newLogs == LogsOf(ReceivedLogs)
                placed(before, after, logs) ==
                    /\ Len(after) = Min(Len(logs) + Len(before),
                                        MAX_LOGS_IN_STATE)
                    /\ \A k \in 1..Len(after) :
                          after[k] = (logs \o before)[k]
            IN  /\ placed(view.recentLogs, view'.recentLogs, newLogs)
                /\ placed(view.loginLogs, view'.loginLogs,
                          EndpointLogs(newLogs, "/api/auth/login"))
                /\ placed(view.checkoutLogs, view'.checkoutLogs,
                          EndpointLogs(newLogs, "/api/checkout"))]_vars

\* three polls have each brought one log: the array is full, the newest
\* log is at its head and the first one has been dropped
C16_Witness ==
    /\ Len(delivered) = 3
    /\ Len(view.recentLogs) = MAX_LOGS_IN_STATE
    /\ view.recentLogs[1].id = delivered[3]
    /\ view.recentLogs[2].id = delivered[2]
    /\ delivered[1] # delivered[2] /\ delivered[2] # delivered[3]
    /\ Len(view.loginLogs) + Len(view.checkoutLogs) >= MAX_LOGS_IN_STATE


(* ------------------------------ C17 ---------------------------------- *)
\* a step in which a fetch of the component fails
FailedPoll ==
    /\ view'.fetched # view.fetched
    /\ ~The(view'.fetched).ok

\* a step in which the interval timer starts a fetch
TimerPoll ==
    /\ npolls' = npolls + 1
    /\ view.mounted = view'.mounted
    /\ view'.requests # view.requests

\* the fetch a timer step has started
StartedRequest == CHOOSE rq \in view'.requests : rq \notin view.requests

\* C17: a failed fetch leaves the cursor and the log arrays as they were
\* and sets the error; the next timer tick sends a fetch from the same
\* cursor; a later successful fetch clears the error.
C17_FailedPollKeepsCursor ==
    /\ [][FailedPoll =>
            /\ cursor' = cursor
            /\ view'.loginLogs = view.loginLogs
            /\ view'.checkoutLogs = view.checkoutLogs
            /\ view'.recentLogs = view.recentLogs
            /\ view'.error # Nothing
            /\ view'.timers = view.timers]_vars
    /\ [][TimerPoll =>
            /\ ~StartedRequest.isInitialLoad
            /\ StartedRequest.currentLatestTimestamp = cursor
            /\ StartedRequest.since =
                  IF TruthyNum(cursor) THEN Some(The(cursor) + 1) ELSE Nothing]_vars
    /\ [][SuccessfulPoll => view'.error = Nothing]_vars

\* a poll with a cursor has failed and the timer has sent the next fetch
\* from that cursor
C17_Witness ==
    /\ view.fetched # Nothing /\ ~The(view.fetched).ok
    /\ view.error # Nothing
    /\ TruthyNum(cursor)
    /\ Len(view.recentLogs) > 0
    /\ \E rq \in view.requests :
          /\ rq.poll > The(view.fetched).poll
          /\ rq.since = Some(The(cursor) + 1)

\* the error of a failed poll is gone after a later successful one
C17_ClearedWitness ==
    /\ view.fetched # Nothing /\ The(view.fetched).ok
    /\ The(view.fetched).poll = 3
    /\ view.error = Nothing
    /\ Len(delivered) >= 2
    /\ cursor # Nothing /\ lastResponse # Nothing
    /\ The(lastResponse).since # Nothing


\* a step in which a fetch of the two-stream dashboard fails / succeeds
DashboardFailedFetch ==
    /\ dash'.fetched # dash.fetched
    /\ ~The(dash'.fetched).ok

DashboardSuccessfulFetch ==
    /\ dash'.fetched # dash.fetched
    /\ The(dash'.fetched).ok

\* what the component holds for one stream
StreamState(d, s) ==
    [data |-> d.data[s], error |-> d.error[s], loading |-> d.loading[s],
     intervalRef |-> d.intervalRef[s],
     timers |-> {t \in d.timers : t.stream = s}]

\* C17, for the component with a chart and a logs stream: a failed fetch
\* sets the error of its own stream and leaves the data of that stream,
\* its timer and everything of the other stream as they were; a successful
\* fetch clears the error of its own stream only.
C17_OtherStreamUntouched ==
    /\ [][DashboardFailedFetch =>
            LET s == The(dash'.fetched).stream
            IN  /\ dash'.data[s] = dash.data[s]
                /\ dash'.error[s] # Nothing
                /\ dash'.timers = dash.timers
                /\ dash'.chartTimeWindowMinutes = dash.chartTimeWindowMinutes
                /\ dash'.chartIntervalSeconds = dash.chartIntervalSeconds
                /\ \A o \in Streams \ {s} :
                      StreamState(dash', o) = StreamState(dash, o)]_vars
    /\ [][DashboardSuccessfulFetch =>
            LET s == The(dash'.fetched).stream
            IN  /\ dash'.error[s] = Nothing
                /\ \A o \in Streams \ {s} :
                      StreamState(dash', o) = StreamState(dash, o)]_vars

\* the chart stream shows an error while the logs stream shows data and no
\* error, and the chart timer has sent the next fetch
C17_TwoStreamWitness ==
    /\ dash.error["chart"] # Nothing
    /\ dash.error["logs"] = Nothing
    /\ Len(dash.data["logs"]) > 0
    /\ ~dash.loading["logs"]
    /\ \E rq \in dash.requests : rq.stream = "chart"

(* ------------------------------ C18 ---------------------------------- *)
TimersOf(s) == {t \in dash.timers : t.stream = s}

\* a step in which the chart effect runs again for a new window or interval
Resubscribe ==
    /\ dash.mounted /\ dash'.mounted
    /\ \/ dash'.chartTimeWindowMinutes # dash.chartTimeWindowMinutes
       \/ dash'.chartIntervalSeconds # dash.chartIntervalSeconds

\* C18: each stream has at most one interval timer at any time; once the
\* dashboard is unmounted no timer is left and no stream sends another
\* fetch; when the chart stream subscribes again, the timer it had is
\* cleared and the one timer it has is the new one.
C18_NoPollAfterTeardown ==
    /\ [](\A s \in Streams : Cardinality(TimersOf(s)) <= 1)
    /\ [](dash.unmounted => dash.timers = {})
    /\ [][dash'.unmounted => dash'.nfetch = dash.nfetch]_vars
    /\ [][Resubscribe =>
            /\ TimersOf("chart") \cap dash'.timers = {}
            /\ \E t \in dash'.timers :
                  /\ t.stream = "chart"
                  /\ t.windowMinutes = dash'.chartTimeWindowMinutes
                  /\ t.intervalSeconds = dash'.chartIntervalSeconds
                  /\ dash'.intervalRef["chart"] = Some(t.id)]_vars

\* the dashboard was unmounted after the chart stream had subscribed again,
\* with fetches still left to send
C18_Witness ==
    /\ dash.unmounted
    /\ dash.ntimers >= 3
    /\ dash.nfetch < MaxFetches
    /\ dash.requests = {}

\* C18, for the incremental component: it has at most one interval timer,
\* and sends no fetch once it is unmounted.
C18_ViewTeardown ==
    /\ [](Cardinality(view.timers) <= 1)
    /\ [](view.unmounted => view.timers = {})
    /\ [][view'.unmounted => npolls' = npolls]_vars


(* ------------------------------ C19 ---------------------------------- *)
\* the fetch a successful poll step has answered
AnsweredRequest ==
    CHOOSE rq \in view.requests : rq.poll = The(view'.fetched).poll

\* the events the store retains: ids of the index whose record can be read
Retained == {id \in IndexIds : Usable(id)}

\* a successful poll step whose fetch carried since = latestTimestamp + 1
PlusOnePoll ==
    /\ SuccessfulPoll
    /\ TruthyNum(AnsweredRequest.currentLatestTimestamp)
    /\ AnsweredRequest.since =
          Some(The(AnsweredRequest.currentLatestTimestamp) + 1)

\* C19: the response to a fetch with since = latestTimestamp + 1 contains
\* every retained event whose timestamp is greater than latestTimestamp,
\* the one exactly 1 ms newer included.
C19_PlusOneLosesNothing ==
    [][PlusOnePoll =>
         \A id \in Retained :
            TimestampOf(id) > The(AnsweredRequest.currentLatestTimestamp)
               => id \in Range(ReceivedLogs)]_vars

\* C19 where no clock read has slipped (score, id and timestamp of every
\* retained event agree) and the newer events fit in one response
C19_PlusOneWithoutSkew ==
    [][(/\ PlusOnePoll
        /\ \A a \in index : a.score = a.id[1] /\
              (Usable(a.id) => TimestampOf(a.id) = a.score)
        /\ Cardinality({id \in Retained : TimestampOf(id) >
               The(AnsweredRequest.currentLatestTimestamp)})
             <= INCREMENTAL_LIMIT)
       => \A id \in Retained :
            TimestampOf(id) > The(AnsweredRequest.currentLatestTimestamp)
               => id \in Range(ReceivedLogs)]_vars

\* C19 read with the bound the server applies: nothing with an index score
\* above since is left out of a response that is not cut by the limit
C19_AboveSinceByScore ==
    [][(/\ PlusOnePoll
        /\ Cardinality({a \in index : Usable(a.id) /\
               a.score > The(AnsweredRequest.since)}) <= INCREMENTAL_LIMIT)
       => \A a \in index :
            (Usable(a.id) /\ a.score > The(AnsweredRequest.since))
               => a.id \in Range(ReceivedLogs)]_vars


(* ------------------------------ C20 ---------------------------------- *)
\* C20: for every event logTraffic has written, the score of its id in the
\* index, the millisecond value in its id and the timestamp of its record
\* are equal.
C20_ScoreIdTimestampEqual ==
    \A a \in index :
       /\ a.score = a.id[1]
       /\ a.id \in DOMAIN records => TimestampOf(a.id) = a.score

\* C20 for calls during which the clock does not move: the three values
\* agree whenever the id was made in the millisecond of the timestamp and
\* the score in that of the id.
C20_EqualUnlessClockMoves ==
    \A a \in index :
       a.id \in DOMAIN records =>
          /\ TimestampOf(a.id) <= a.id[1]
          /\ a.id[1] <= a.score
          /\ a.score <= TimestampOf(a.id) + 1


(* ------------------------------ C21 ---------------------------------- *)
\* C21: the cursor of the component never decreases, whatever the order in
\* which the responses to overlapping fetches arrive: every step leaves it
\* as it is or moves it forward.
C21_CursorNeverDecreases ==
    [][/\ cursor # Nothing => cursor' # Nothing
       /\ (cursor # Nothing /\ cursor' # Nothing)
             => The(cursor') >= The(cursor)]_vars

\* C21 for responses that arrive in the order the server sent them (each
\* fetch answered and received before the next response is sent)
C21_InOrderNeverDecreases ==
    [][(Cardinality(view.responses) + Cardinality(view.requests) <= 1
        /\ cursor # Nothing /\ cursor' # Nothing)
           => The(cursor') >= The(cursor)]_vars


\* C21 for fetches that started from a cursor (since = cursor + 1)
C21_SinceFetchNeverDecreases ==
    [][(/\ cursor # Nothing /\ cursor' # Nothing
        /\ \E rs \in view.responses :
              /\ rs \notin view'.responses
              /\ TruthyNum(rs.rq.currentLatestTimestamp))
           => The(cursor') >= The(cursor)]_vars


(* ------------------------------ C22 ---------------------------------- *)
\* the retained events no poll has returned that lie behind the cursor: the
\* next poll asks for scores of at least MinScore(cursor)
BehindCursor ==
    {a \in index : /\ cursor # Nothing
                   /\ a.id \notin Range(delivered)
                   /\ a.score < MinScore(cursor)}

\* C22: with a writer and the polling reader running concurrently, every
\* event in the index that no poll has returned yet is still ahead of the
\* cursor, so that a later poll returns it; also an event whose insertion
\* completes after a poll has returned a cursor at or above its score.
C22_NothingLeftBehindCursor == BehindCursor = {}

\* C22 for events written without a slip of the clock (score, id and
\* timestamp agree) while the index holds no more than one response carries
C22_LateInsertionLeftBehind ==
    \A a \in BehindCursor :
       \/ a.score # a.id[1]
       \/ a.id \in DOMAIN records /\ TimestampOf(a.id) # a.score
       \/ Cardinality(index) > INCREMENTAL_LIMIT

\* an event behind the cursor stays behind it and is in no later response:
\* the cursor of the echoing reader never moves back
C22_LeftBehindIsLost ==
    [][/\ (cursor # Nothing /\ cursor' # Nothing)
             => The(cursor') >= The(cursor)
       /\ \A a \in BehindCursor :
             a.id \notin Range(SubSeq(delivered', Len(delivered) + 1,
                                      Len(delivered')))]_vars


(* ------------------------------ C23 ---------------------------------- *)
\* the ids a step takes out of the index / the keys it deletes
RemovedFromIndex == IndexIds \ {a.id : a \in index'}
DeletedRecords == DOMAIN records \ DOMAIN records'

\* C23: in the count-then-trim eviction, whatever the interleaving of
\* concurrent logTraffic calls, the index never holds fewer ids than
\* min(MAX_LOGS, number of events appended), and the ids a call removes
\* from the index are the keys it has deleted.
C23_EvictionKeepsTheCap ==
    /\ [](Cardinality(index) >= Min(MAX_LOGS, Len(appended)))
    /\ [][RemovedFromIndex # {} =>
            \E w \in Writers :
               /\ pc[w] = "ct_zrem"
               /\ RemovedFromIndex = Range(The(cur[w]).oldestLogIds)
               /\ RemovedFromIndex \cap DOMAIN records = {}]_vars

\* the index size part of C23 alone
C23_IndexNotBelowCap == Cardinality(index) >= Min(MAX_LOGS, Len(appended))


(* ------------------------------ C24 ---------------------------------- *)
\* no two positions of a log array hold the same event
NoRepeats(logs) ==
    \A i, j \in 1..Len(logs) : logs[i].id = logs[j].id => i = j

\* C24: no log array of the component ever holds the same event twice,
\* also when the interval fires while an earlier fetch is unanswered.
C24_NoEventTwice ==
    /\ NoRepeats(view.recentLogs)
    /\ NoRepeats(view.loginLogs)
    /\ NoRepeats(view.checkoutLogs)

\* C24 for events whose score, id and timestamp agree
C24_NoEventTwiceWithoutSkew ==
    (\A a \in index : /\ a.score = a.id[1]
                      /\ a.id \in DOMAIN records => TimestampOf(a.id) = a.score)
       => C24_NoEventTwice

\* C24 while fetches do not overlap and no clock read has slipped: the one
\* unanswered fetch, sent from the cursor as it stands, brings no event again
C24_NoEventTwiceInOrder ==
    [][(/\ \A a \in index : /\ a.score = a.id[1]
                            /\ a.id \in DOMAIN records
                                  => TimestampOf(a.id) = a.score
        /\ Cardinality(view.requests) <= 1
        /\ lastResponse # Nothing
        /\ \A rq \in view.requests :
              rq.since # Nothing /\ rq.currentLatestTimestamp = cursor
        /\ NoRepeats(view.recentLogs))
          => NoRepeats(view'.recentLogs)]_vars


(* ------------------------------ C25 ---------------------------------- *)
\* C25: in every state a concurrent query may see, each id in the index
\* refers to a record that has been written; the id of a call that has not
\* written its record yet is not in the index.
C25_RecordBeforeIndex ==
    /\ \A a \in index : a.id \in DOMAIN records
    /\ \A w \in Writers :
          pc[w] = "set" => The(cur[w]).id \notin IndexIds

\* one call has written its record and not yet added the id, another has
\* not yet written its record, and the index holds an earlier event
C25_Witness ==
    /\ \E w \in Writers :
          /\ pc[w] = "zadd"
          /\ The(cur[w]).id \in DOMAIN records
          /\ The(cur[w]).id \notin IndexIds
    /\ \E w \in Writers : pc[w] = "set"
    /\ index # {}

(* ------------------------------ C26 ---------------------------------- *)
\* the answered snapshot request, of either route
SnapshotAnswered ==
    /\ lastQuery # Nothing
    /\ The(lastQuery).op \in {"GET snapshot", "GET /api/traffic/combined"}
    /\ The(lastQuery).n = 200

\* part holds exactly the events of fetched with the endpoint, each once
ExactlyTheEndpoint(part, fetched, endpoint) ==
    /\ Range(part) = {id \in Range(fetched) : records[id].endpoint = endpoint}
    /\ Cardinality(Range(part)) = Len(part)

\* recent holds the RECENT_COUNT most recent events of fetched (all of them
\* when there are fewer), each once, newest first
MostRecentNewestFirst(recent, fetched) ==
    /\ Len(recent) = Min(RECENT_COUNT, Len(fetched))
    /\ Cardinality(Range(recent)) = Len(recent)
    /\ Range(recent) \subseteq Range(fetched)
    /\ \A i, j \in 1..Len(recent) :
          i < j => TimestampOf(recent[i]) >= TimestampOf(recent[j])
    /\ \A id \in Range(fetched) \ Range(recent), r \in Range(recent) :
          TimestampOf(id) <= TimestampOf(r)

SnapshotListsRight(res) ==
    /\ ExactlyTheEndpoint(res.login, res.fetched, "/api/auth/login")
    /\ ExactlyTheEndpoint(res.checkout, res.fetched, "/api/checkout")
    /\ MostRecentNewestFirst(res.recent, res.fetched)

\* C26: in the responses of the snapshot routes login and checkout are
\* exactly the fetched events of that endpoint, and recent holds the ten
\* most recent fetched events (all when fewer), newest first.
C26_SnapshotLists ==
    SnapshotAnswered => SnapshotListsRight(The(lastQuery).res)

\* C26 for the last GET of the combined route, which sorts before it slices
C26_CombinedLists ==
    (SnapshotAnswered /\ The(lastQuery).op = "GET /api/traffic/combined")
        => SnapshotListsRight(The(lastQuery).res)

\* the combined route answers with more fetched events than recent holds
C26_CombinedWitness ==
    /\ SnapshotAnswered
    /\ The(lastQuery).op = "GET /api/traffic/combined"
    /\ Len(The(lastQuery).res.fetched) > RECENT_COUNT
    /\ The(lastQuery).res.login # <<>>
    /\ The(lastQuery).res.checkout # <<>>

\* C26 for the split by endpoint alone, in both routes
C26_SplitByEndpoint ==
    SnapshotAnswered =>
        /\ ExactlyTheEndpoint(The(lastQuery).res.login,
                              The(lastQuery).res.fetched, "/api/auth/login")
        /\ ExactlyTheEndpoint(The(lastQuery).res.checkout,
                              The(lastQuery).res.fetched, "/api/checkout")

(* ------------------------------ C27 ---------------------------------- *)
RECURSIVE SumCounts(_)
SumCounts(data) ==
    IF data = <<>> THEN 0 ELSE data[1] + SumCounts(SubSeq(data, 2, Len(data)))

\* the answered request to the combined route
CombinedAnswered ==
    /\ lastQuery # Nothing
    /\ The(lastQuery).op = "GET /api/traffic/combined"
    /\ The(lastQuery).n = 200

\* the retained events of an endpoint logged after the start of the window
InWindow(endpoint, since) ==
    {id \in IndexIds : /\ Usable(id)
                       /\ records[id].endpoint = endpoint
                       /\ TimestampOf(id) > since}

\* the chart counts of an endpoint in a response
ChartData(res, endpoint) ==
    IF endpoint = "/api/auth/login" THEN res.chart.loginData
    ELSE res.chart.checkoutData

\* C27: in the combined snapshot the chart bucket counts of each tracked
\* endpoint sum to the number of its events in the requested time window:
\* none is dropped and none is counted twice.
C27_BucketsCountTheWindow ==
    CombinedAnswered =>
        \A e \in Endpoints :
            SumCounts(ChartData(The(lastQuery).res, e))
                = Cardinality(InWindow(e, The(The(lastQuery).res.since)))

\* C27 when no clock read has slipped: score, id and timestamp of every
\* event agree, and the last bucket starts at the time of the route's
\* Date.now()
C27_CountWithoutSlip ==
    (/\ CombinedAnswered
     /\ \A a \in index : /\ a.score = a.id[1]
                         /\ a.id \in DOMAIN records
                               => TimestampOf(a.id) = a.score
     /\ LET ts == The(lastQuery).res.chart.timestamps IN ts[Len(ts)] = now)
      => \A e \in Endpoints :
            SumCounts(ChartData(The(lastQuery).res, e))
                = Cardinality(InWindow(e, The(The(lastQuery).res.since)))

\* C27 for the events the route fetched: none is counted twice, and those
\* logged at or after the start of the first bucket are counted once
C27_FetchedCountedFromFirstBucket ==
    CombinedAnswered =>
        LET res == The(lastQuery).res
            counted(e) ==
                {id \in Range(res.fetched) :
                    /\ records[id].endpoint = e
                    /\ TimestampOf(id) >= res.chart.timestamps[1]}
        IN  \A e \in Endpoints :
                SumCounts(ChartData(res, e)) = Cardinality(counted(e))

\* C27 when no retained event of the window was logged before the first
\* bucket starts and the limit cuts none off
C27_CountWhenNoneBeforeFirstBucket ==
    (/\ CombinedAnswered
     /\ Cardinality(index) <= INITIAL_LIMIT
     /\ \A id \in IndexIds :
           Usable(id) => TimestampOf(id) >= The(lastQuery).res.chart.timestamps[1])
      => \A e \in Endpoints :
            SumCounts(ChartData(The(lastQuery).res, e))
                = Cardinality(InWindow(e, The(The(lastQuery).res.since)))

(* ------------------------------ C28 ---------------------------------- *)
\* the step answers the chart fetch rq with 200, and no chart fetch is
\* unanswered after it
LastChartResponse(rq) ==
    /\ rq \in dash.requests /\ rq \notin dash'.requests
    /\ rq.stream = "chart"
    /\ dash'.fetched = Some([stream |-> "chart", n |-> rq.n, ok |-> TRUE])
    /\ \A other \in dash'.requests : other.stream # "chart"

MadeWithSelectedOptions(rq, d) ==
    /\ rq.windowMinutes = d.chartTimeWindowMinutes
    /\ rq.intervalSeconds = d.chartIntervalSeconds

\* C28: once every chart request in flight has been answered, chartData is
\* the response to a request made with the selected window and interval,
\* in whatever order the responses arrive.
C28_ChartOfSelectedOptions ==
    [][\A rq \in dash.requests :
          LastChartResponse(rq) => MadeWithSelectedOptions(rq, dash')]_vars

\* C28 for the requests that are sent: every running chart interval fetches
\* with the selected window and interval
C28_IntervalsUseSelectedOptions ==
    \A t \in dash.timers :
        t.stream = "chart" => MadeWithSelectedOptions(t, dash)

(* ------------------------------ C29 ---------------------------------- *)
ChartRendered == lastQuery # Nothing /\ The(lastQuery).op = "TrafficChart"

\* the events of the data handed to the chart that lie in the displayed
\* window, each event once
DisplayedEvents ==
    LET q == The(lastQuery)
    IN  {log.id : log \in {l \in Range(q.res.data) :
            /\ l.timestamp >= q.opts.currentTime
                                 - q.opts.timeWindow * MS_PER_MINUTE
            /\ l.timestamp <= q.opts.currentTime}}

\* C29: the chart's de-duplication never collapses two distinct requests:
\* the slot counts sum to, and Total Requests equals, the number of
\* distinct events with timestamp inside the displayed window.
C29_ChartCountsEveryEvent ==
    ChartRendered =>
        /\ The(lastQuery).n = Cardinality(DisplayedEvents)
        /\ SumCounts(The(lastQuery).res.buckets) = Cardinality(DisplayedEvents)

\* C29 for the slots alone: the slot counts sum to Total Requests
C29_SlotsSumToTotal ==
    ChartRendered => SumCounts(The(lastQuery).res.buckets) = The(lastQuery).n

\* C29 when no two events of the data share a millisecond
C29_CountsWhenTimestampsDiffer ==
    (/\ ChartRendered
     /\ \A a, b \in Range(The(lastQuery).res.data) :
           a.timestamp = b.timestamp => a = b)
      => /\ The(lastQuery).n = Cardinality(DisplayedEvents)
         /\ SumCounts(The(lastQuery).res.buckets) = Cardinality(DisplayedEvents)

(* ------------------------------ C30 ---------------------------------- *)
LatestAnswered ==
    lastQuery # Nothing /\ The(lastQuery).op = "getLatestLogTimestamp"

\* the entry of the index with the highest rank
NewestEntry == CHOOSE a \in index : \A b \in index \ {a} : ZLess(b, a)

\* C30: getLatestLogTimestamp returns the millisecond timestamp of the
\* newest retained log (the value in its id, equal to its score) whenever
\* the index is not empty, and the current time only when the index is
\* empty or the store call fails.
C30_LatestIsNewestTimestamp ==
    LatestAnswered =>
        IF The(lastQuery).opts \/ index = {}
        THEN The(lastQuery).n = now
        ELSE /\ The(lastQuery).n = NewestEntry.id[1]
             /\ The(lastQuery).n = NewestEntry.score

\* C30 with the milliseconds of the id alone, whatever the score
C30_LatestIsIdTimestamp ==
    (LatestAnswered /\ ~The(lastQuery).opts /\ index # {})
        => The(lastQuery).n = NewestEntry.id[1]

\* C30 for the fallback: with an empty index or a failing store call the
\* current time is returned
C30_FallbackIsNow ==
    (LatestAnswered /\ (The(lastQuery).opts \/ index = {}))
        => The(lastQuery).n = now

\* what is returned for a non-empty index: the number the random part of
\* the newest id starts with, or the current time when it starts with none
C30_LatestIsFromRandomPart ==
    (LatestAnswered /\ ~The(lastQuery).opts /\ index # {})
        => The(lastQuery).n =
              IF parseIntSuffix(SuffixText(NewestEntry.id[2])).isNaN THEN now
              ELSE parseIntSuffix(SuffixText(NewestEntry.id[2])).v


====
